---- MODULE Spec2Model ----
(***************************************************************************)
(* Storage adapter Factory (StorageFactory.ts), CDN Service                 *)
(* (cdnService.ts), the storage adapters' upload and delete operations and  *)
(* the Asset Service's deleteCourseAssets of the LMS-SCORM platform, as a   *)
(* state machine.                                                           *)
(*                                                                         *)
(* The program runs on one JavaScript event loop: a handler runs            *)
(* synchronously up to its next `await`; each action below is one such      *)
(* synchronous segment.  A promise created by createAdapter() is a          *)
(* "construction"; its index in `constructions` is also the identity of     *)
(* the adapter object it resolves to.                                       *)
(***************************************************************************)
EXTENDS Integers, Sequences, FiniteSets, TLC

VARIABLES
    env,                    \* process.env: provider selector and the set of non-empty keys
    instance,               \* StorageFactory.instance (0 = null, else adapter identity)
    initializationPromise,  \* StorageFactory.initializationPromise (0 = null, else construction)
    constructions,          \* every promise createAdapter() has returned so far
    resets,                 \* number of reset() calls so far
    pc,                     \* per caller: position in getAdapter()/purgeCache()
    op,                     \* per caller: the operation it is running
    branch,                 \* per caller: the branch its getAdapter() call took
    awaiting,               \* per caller: the construction its getAdapter() awaits
    result,                 \* per caller: the adapter its getAdapter() resolved to
    callEpoch,              \* per caller: value of `resets` when it called getAdapter()
    returned,               \* every (epoch of the call, adapter) getAdapter() has resolved to
    racedReset,             \* some reset() ran while a construction was in flight
    arrived,                \* per caller: the constructions in progress when it called
    calls,                  \* number of getAdapter() invocations so far
    opts,                   \* per caller: the CdnPurgeOptions of its purgeCache() call
    keysToPurge,            \* per caller: purgeCache's local keysToPurge
    purgeResult,            \* per caller: the CdnPurgeResult returned
    purgeCalls,             \* log of storageAdapter.purgeCdnCache(keys) calls
    lookups,                \* log of storage.getCourse(courseId) calls
    purges,                 \* number of purgeCache() invocations so far
    entry,                  \* per caller: the CDN Service method it entered through
    urls,                   \* per caller: the argument of its purgeUrls() call
    destinationKey,         \* the destinationKey handed to the Local adapter's upload
    safeKey,                \* the upload's local safeKey, reported as UploadResult.key
    resanitized,            \* the sanitization applied to safeKey once more
    storeAdapter,           \* type of the adapter whose storage operations run
    fs,                     \* the filesystem: absolute path -> directory or file with its bytes
    bucket,                 \* the CDN adapter's bucket: object key -> bytes
    lastOp,                 \* the last storage operation: arguments, outcome, storage before it
    touched,                \* every path a write or delete filesystem call was aimed at
    kept,                   \* the last uploadBuffer() whose target no later call was aimed at
    storeOps,               \* number of storage operations so far
    storageAdapter,         \* AssetService.storageAdapter (0 = undefined, else adapter identity)
    assetArgs,              \* per caller: the arguments of its deleteCourseAssets() call
    assetHeld,              \* per caller: StorageFactory.instance when its operation began
    assetUsed,              \* per caller: the adapter getStorage() gave its operation
    assetRet,               \* per caller: what deleteCourseAssets() returned
    adapterCalls,           \* the calls the running Asset Service operation made on adapters
    assetOps,               \* number of Asset Service operations so far
    fileName,               \* the fileName handed to getContentType()
    contentType,            \* what getContentType() returned
    status,                 \* per caller: what getCdnStatus()/getStorageInfo() returned
    migration,              \* the migration script: position, options, local variables
    db,                     \* the course records: course id -> record
    scriptLog,              \* the uploads and record updates the migration script made
    upload                  \* the running uploadCourseAssets(): arguments, locals, outcome

factoryVars ==
    <<instance, initializationPromise, constructions, resets, returned, racedReset, calls>>

callerVars ==
    <<pc, op, branch, awaiting, result, callEpoch, arrived>>

purgeVars ==
    <<opts, keysToPurge, purgeResult, purgeCalls, lookups, purges>>

entryVars ==
    <<entry, urls>>

keyVars ==
    <<destinationKey, safeKey, resanitized>>

storeVars ==
    <<storeAdapter, fs, bucket, lastOp, touched, kept, storeOps>>

assetVars ==
    <<storageAdapter, assetArgs, assetHeld, assetUsed, assetRet, adapterCalls, assetOps>>

policyVars ==
    <<fileName, contentType>>

statusVars ==
    <<status>>

scriptVars ==
    <<migration, db, scriptLog>>

uploadVars ==
    <<upload>>

serviceVars ==
    <<policyVars, statusVars, scriptVars, uploadVars>>

restVars ==
    <<keyVars, storeVars, assetVars, serviceVars>>

vars ==
    <<env, factoryVars, callerVars, purgeVars, entryVars, restVars>>

----------------------------------------------------------------------------
(* Bounds *)

NumCallers ==
    2

MaxCalls ==
    2

MaxResets ==
    1

MaxPurges ==
    1

Callers ==
    1..NumCallers

----------------------------------------------------------------------------
(* Optional values: <<>> is undefined, <<v>> is the value v *)

None ==
    <<>>

Some(v) ==
    <<v>>

----------------------------------------------------------------------------
(* process.env *)

R2Keys ==
    {"CLOUDFLARE_ACCOUNT_ID", "CLOUDFLARE_R2_ACCESS_KEY_ID",
     "CLOUDFLARE_R2_SECRET_ACCESS_KEY", "CLOUDFLARE_R2_BUCKET_NAME",
     "CLOUDFLARE_R2_CDN_DOMAIN"}

S3Keys ==
    {"AWS_REGION", "AWS_ACCESS_KEY_ID", "AWS_SECRET_ACCESS_KEY",
     "AWS_S3_BUCKET_NAME", "AWS_CLOUDFRONT_DOMAIN"}

DistributionKey ==
    "AWS_CLOUDFRONT_DISTRIBUTION_ID"

ZoneKeys ==
    {"CLOUDFLARE_ZONE_ID", "CLOUDFLARE_API_TOKEN"}

\* process.env.X is truthy iff X is set to a non-empty string
Has(e, key) ==
    key \in e.present

\* process.env.STORAGE_PROVIDER || 'local'
getConfiguredProvider(e) ==
    IF e.STORAGE_PROVIDER = None \/ e.STORAGE_PROVIDER = Some("")
    THEN "local"
    ELSE e.STORAGE_PROVIDER[1]

----------------------------------------------------------------------------
(* Adapters *)

\* An adapter object: its type tag, its cdnEnabled flag, and whether its
\* healthCheck() was called and returned true while it was constructed.
NoAdapter ==
    [type |-> "none", cdnEnabled |-> FALSE, healthChecked |-> FALSE]

LocalStorageAdapter ==
    [type |-> "local", cdnEnabled |-> FALSE, healthChecked |-> FALSE]

CloudFlareR2Adapter ==
    [type |-> "cloudflare-r2", cdnEnabled |-> TRUE, healthChecked |-> FALSE]

S3CloudFrontAdapter ==
    [type |-> "s3-cloudfront", cdnEnabled |-> TRUE, healthChecked |-> FALSE]

\* createLocalAdapter(): constructs the Local adapter; no health check
createLocalAdapter ==
    LocalStorageAdapter

----------------------------------------------------------------------------
(* createAdapter(), split at its one suspension point (await healthCheck()) *)

\* the config object of createCloudFlareR2Adapter: field -> truthy?
R2Config(e) ==
    [accountId       |-> Has(e, "CLOUDFLARE_ACCOUNT_ID"),
     accessKeyId     |-> Has(e, "CLOUDFLARE_R2_ACCESS_KEY_ID"),
     secretAccessKey |-> Has(e, "CLOUDFLARE_R2_SECRET_ACCESS_KEY"),
     bucketName      |-> Has(e, "CLOUDFLARE_R2_BUCKET_NAME"),
     cdnDomain       |-> Has(e, "CLOUDFLARE_R2_CDN_DOMAIN")]

\* the requiredConfig object of createS3CloudFrontAdapter (no distribution id)
S3RequiredConfig(e) ==
    [region           |-> Has(e, "AWS_REGION"),
     accessKeyId      |-> Has(e, "AWS_ACCESS_KEY_ID"),
     secretAccessKey  |-> Has(e, "AWS_SECRET_ACCESS_KEY"),
     bucketName       |-> Has(e, "AWS_S3_BUCKET_NAME"),
     cloudFrontDomain |-> Has(e, "AWS_CLOUDFRONT_DOMAIN")]

\* Object.entries(config).filter(([_, value]) => !value).map(([key]) => key)
missingConfigNone(config) ==
    {}

missingConfig(config) ==
    {f \in DOMAIN config : ~config[f]}

\* Outcomes of a (possibly partial) run of an async function
Thrown ==
    [kind |-> "throw", adapter |-> NoAdapter]

Returned(a) ==
    [kind |-> "return", adapter |-> a]

Suspended(a) ==
    [kind |-> "await", adapter |-> a]

\* createCloudFlareR2Adapter() up to `await adapter.healthCheck()`
createCloudFlareR2AdapterBegin(e) ==
    IF missingConfig(R2Config(e)) # {}
    THEN Thrown
    ELSE Suspended(CloudFlareR2Adapter)

\* createS3CloudFrontAdapter() up to `await adapter.healthCheck()`
createS3CloudFrontAdapterBegin(e) ==
    IF missingConfig(S3RequiredConfig(e)) # {}
    THEN Thrown
    ELSE Suspended(S3CloudFrontAdapter)

\* create*Adapter() from the health check's answer on
healthGateOpen(adapter, isHealthy) ==
    Returned([adapter EXCEPT !.healthChecked = isHealthy])

healthGate(adapter, isHealthy) ==
    IF ~isHealthy
    THEN Thrown
    ELSE Returned([adapter EXCEPT !.healthChecked = TRUE])

\* the catch block of createAdapter()
catchFallbackNone(outcome) ==
    outcome

catchFallback(outcome) ==
    IF outcome.kind = "throw"
    THEN Returned(createLocalAdapter)
    ELSE outcome

\* the switch of createAdapter() up to the first suspension
createAdapterBegin(e) ==
    LET provider == getConfiguredProvider(e) IN
    CASE provider = "cloudflare-r2" -> catchFallback(createCloudFlareR2AdapterBegin(e))
      [] provider = "s3-cloudfront" -> catchFallback(createS3CloudFrontAdapterBegin(e))
      [] OTHER                      -> Returned(createLocalAdapter)

\* createAdapter() resumed with the health check's answer
createAdapterResume(adapter, isHealthy) ==
    catchFallback(healthGate(adapter, isHealthy))

----------------------------------------------------------------------------
(* Constructions: the promises returned by createAdapter() *)

\* phase "checking": suspended on healthCheck(); "settled": resolved with
\* `adapter`; "rejected": rejected.  `resumed`: the starter's continuation
\* after `await this.initializationPromise` has run.
Construction(c, outcome) ==
    [starter  |-> c,
     epoch    |-> resets,
     phase    |-> CASE outcome.kind = "await"  -> "checking"
                    [] outcome.kind = "return" -> "settled"
                    [] OTHER                   -> "rejected",
     checked  |-> outcome.kind = "await",
     healthAnswer |-> "none",
     adapter  |-> outcome.adapter,
     resumed  |-> FALSE]

ConstructionIds ==
    1..Len(constructions)

InProgress ==
    {k \in ConstructionIds : constructions[k].phase = "checking"}

\* a getAdapter() call made in epoch e resolved to adapter k
Resolution(e, k) ==
    [epoch |-> e, adapter |-> k]

\* the adapter object with identity k
AdapterOf(k) ==
    constructions[k].adapter

----------------------------------------------------------------------------
(* StorageFactory.getAdapter() *)

\* which of the three paths of getAdapter() a call takes
getAdapterBranchNoCache(inst, promise) ==
    IF promise # 0 THEN "join" ELSE "start"

getAdapterBranchNoJoin(inst, promise) ==
    IF inst # 0 THEN "cached" ELSE "start"

getAdapterBranch(inst, promise) ==
    IF inst # 0 THEN "cached"
    ELSE IF promise # 0 THEN "join"
    ELSE "start"

\* the synchronous part of getAdapter(), called by caller c running `o`
CallGetAdapter(c, o) ==
    /\ calls < MaxCalls
    /\ calls' = calls + 1
    /\ op' = [op EXCEPT ![c] = o]
    /\ callEpoch' = [callEpoch EXCEPT ![c] = resets]
    /\ arrived' = [arrived EXCEPT ![c] = InProgress]
    /\ LET b == getAdapterBranch(instance, initializationPromise) IN
       /\ branch' = [branch EXCEPT ![c] = b]
       /\ CASE b = "cached" ->
                 /\ pc' = [pc EXCEPT ![c] = "resolved"]
                 /\ result' = [result EXCEPT ![c] = instance]
                 /\ returned' = returned \cup {Resolution(resets, instance)}
                 /\ awaiting' = [awaiting EXCEPT ![c] = 0]
                 /\ UNCHANGED <<instance, initializationPromise, constructions>>
            [] b = "join" ->
                 /\ pc' = [pc EXCEPT ![c] = "awaitJoin"]
                 /\ awaiting' = [awaiting EXCEPT ![c] = initializationPromise]
                 /\ result' = [result EXCEPT ![c] = 0]
                 /\ UNCHANGED <<instance, initializationPromise, constructions, returned>>
            [] OTHER ->
                 /\ constructions' =
                        Append(constructions, Construction(c, createAdapterBegin(env)))
                 /\ initializationPromise' = Len(constructions) + 1
                 /\ pc' = [pc EXCEPT ![c] = "awaitInit"]
                 /\ awaiting' = [awaiting EXCEPT ![c] = Len(constructions) + 1]
                 /\ result' = [result EXCEPT ![c] = 0]
                 /\ UNCHANGED <<instance, returned>>
    /\ UNCHANGED <<env, resets, racedReset>>

CanCall(c) ==
    pc[c] \in {"idle", "done"}

\* a caller invokes StorageFactory.getAdapter() directly
GetAdapter(c) ==
    /\ CanCall(c)
    /\ CallGetAdapter(c, "getAdapter")
    /\ UNCHANGED <<purgeVars, entryVars, restVars>>

\* adapter.healthCheck() of construction k answers; createAdapter() runs on
HealthCheckReturns(k, isHealthy) ==
    /\ k \in ConstructionIds
    /\ constructions[k].phase = "checking"
    /\ LET outcome == createAdapterResume(constructions[k].adapter, isHealthy) IN
       constructions' = [constructions EXCEPT
           ![k].phase = IF outcome.kind = "return" THEN "settled" ELSE "rejected",
           ![k].adapter = outcome.adapter,
           ![k].healthAnswer = IF isHealthy THEN "true" ELSE "false"]
    /\ UNCHANGED <<env, entryVars, restVars,
                   instance, initializationPromise, resets, returned, racedReset, calls,
                   callerVars, purgeVars>>

\* the starter's continuation after `await this.initializationPromise`
StarterResumes(c) ==
    /\ pc[c] = "awaitInit"
    /\ LET k == awaiting[c] IN
       /\ constructions[k].phase # "checking"
       /\ constructions' = [constructions EXCEPT ![k].resumed = TRUE]
       /\ IF constructions[k].phase = "settled"
          THEN /\ instance' = k
               /\ initializationPromise' = 0
               /\ result' = [result EXCEPT ![c] = k]
               /\ returned' = returned \cup {Resolution(callEpoch[c], k)}
               /\ pc' = [pc EXCEPT ![c] = "resolved"]
          ELSE /\ pc' = [pc EXCEPT ![c] = "rejected"]
               /\ UNCHANGED <<instance, initializationPromise, result, returned>>
    /\ UNCHANGED <<env, entryVars, restVars,
                   resets, racedReset, calls, op, branch, awaiting, callEpoch, arrived,
                   purgeVars>>

\* a joiner's promise takes the outcome of the construction it returned;
\* its reaction was registered after the starter's, so it runs after it
JoinerResolves(c) ==
    /\ pc[c] = "awaitJoin"
    /\ LET k == awaiting[c] IN
       /\ constructions[k].phase # "checking"
       /\ constructions[k].resumed
       /\ IF constructions[k].phase = "settled"
          THEN /\ result' = [result EXCEPT ![c] = k]
               /\ returned' = returned \cup {Resolution(callEpoch[c], k)}
               /\ pc' = [pc EXCEPT ![c] = "resolved"]
          ELSE /\ pc' = [pc EXCEPT ![c] = "rejected"]
               /\ UNCHANGED <<result, returned>>
    /\ UNCHANGED <<env, entryVars, restVars,
                   instance, initializationPromise, constructions, resets, racedReset,
                   calls, op, branch, awaiting, callEpoch, arrived, purgeVars>>

\* the caller of getAdapter() has its adapter
GetAdapterDone(c) ==
    /\ pc[c] = "resolved"
    /\ op[c] = "getAdapter"
    /\ pc' = [pc EXCEPT ![c] = "done"]
    /\ UNCHANGED <<env, entryVars, restVars,
                   factoryVars, op, branch, awaiting, result, callEpoch, arrived,
                   purgeVars>>

\* StorageFactory.reset()
Reset ==
    /\ resets < MaxResets
    /\ instance' = 0
    /\ initializationPromise' = 0
    /\ resets' = resets + 1
    /\ racedReset' = (racedReset \/ initializationPromise # 0)
    /\ UNCHANGED <<env, entryVars, restVars,
                   constructions, returned, calls, callerVars, purgeVars>>

----------------------------------------------------------------------------
(* Storage keys, paths and the filesystem under the Local adapter           *)
(*                                                                         *)
(* A key is the sequence of its pieces: "/", "." or a run of characters     *)
(* that are neither.  An absolute path is the sequence of its names.        *)

MaxKeyLen ==
    4

KeyPieces ==
    {".", "/", "a"}

\* every key of at most n pieces
RECURSIVE KeysUpTo(_)
KeysUpTo(n) ==
    IF n = 0 THEN {<<>>}
    ELSE LET shorter == KeysUpTo(n - 1) IN
         shorter \cup {Append(k, p) : k \in {j \in shorter : Len(j) = n - 1}, p \in KeyPieces}

\* key.replace(/\.\./g, ''): every leftmost, non-overlapping ".." is removed
RECURSIVE removeDotDot(_)
removeDotDot(k) ==
    IF Len(k) < 2 THEN k
    ELSE IF k[1] = "." /\ k[2] = "."
         THEN removeDotDot(SubSeq(k, 3, Len(k)))
         ELSE <<k[1]>> \o removeDotDot(Tail(k))

\* key.replace(/^\/+/, '')
RECURSIVE stripLeadingSlashes(_)
stripLeadingSlashes(k) ==
    IF k # <<>> /\ k[1] = "/" THEN stripLeadingSlashes(Tail(k)) ELSE k

sanitizeStripFirst(k) ==
    removeDotDot(stripLeadingSlashes(k))

\* destinationKey.replace(/\.\./g, '').replace(/^\/+/, '')
sanitize(k) ==
    stripLeadingSlashes(removeDotDot(k))

\* the text of a key
RECURSIVE Text(_)
Text(k) ==
    IF k = <<>> THEN "" ELSE k[1] \o Text(Tail(k))

\* key.split('/'), each part as text
RECURSIVE segments(_)
segments(k) ==
    IF k = <<>> THEN <<"">>
    ELSE LET rest == segments(Tail(k)) IN
         IF k[1] = "/" THEN <<"">> \o rest
         ELSE <<k[1] \o rest[1]>> \o Tail(rest)

\* path.normalize on the names: "" and "." vanish, ".." leaves the directory
RECURSIVE resolve(_, _)
resolve(stack, segs) ==
    IF segs = <<>> THEN stack
    ELSE LET seg == Head(segs) IN
         resolve(CASE seg \in {"", "."} -> stack
                   [] seg = ".." -> SubSeq(stack, 1, Len(stack) - 1)
                   [] OTHER -> Append(stack, seg),
                 Tail(segs))

\* path.join(dir, key): the path named, and whether it ends in a separator
pathJoin(dir, k) ==
    [path |-> resolve(dir, segments(k)),
     trailing |-> k # <<>> /\ k[Len(k)] = "/"]

\* path.dirname
dirname(path) ==
    SubSeq(path, 1, Len(path) - 1)

\* this.uploadsDir of the Local adapter
UploadsDir ==
    <<"srv", "uploads">>

Prefixes(path) ==
    {SubSeq(path, 1, n) : n \in 0..Len(path)}

\* path lies in the directory dir or is dir
Within(dir, path) ==
    dir \in Prefixes(path)

Dir ==
    [kind |-> "dir", data |-> <<>>]

File(b) ==
    [kind |-> "file", data |-> b]

IsDir(f, path) ==
    path \in DOMAIN f /\ f[path].kind = "dir"

IsFile(f, path) ==
    path \in DOMAIN f /\ f[path].kind = "file"

\* outcomes of a filesystem call that the arguments do not decide
IoOutcomes ==
    {"ok", "error"}

\* fs.mkdir(path, { recursive: true })
mkdir(f, path) ==
    IF \E q \in Prefixes(path) : IsFile(f, q)
    THEN [ok |-> FALSE, fs |-> f]
    ELSE [ok |-> TRUE,
          fs |-> [q \in DOMAIN f \cup Prefixes(path) |-> IF q \in DOMAIN f THEN f[q] ELSE Dir]]

\* fs.writeFile(target, b)
writeFile(f, target, b, io) ==
    IF /\ io = "ok"
       /\ ~target.trailing
       /\ target.path # <<>>
       /\ ~IsDir(f, target.path)
       /\ IsDir(f, dirname(target.path))
    THEN [ok |-> TRUE,
          fs |-> [q \in DOMAIN f \cup {target.path} |->
                     IF q = target.path THEN File(b) ELSE f[q]]]
    ELSE [ok |-> FALSE, fs |-> f]

\* fs.unlink(target)
unlink(f, target, io) ==
    IF io = "ok" /\ ~target.trailing /\ IsFile(f, target.path)
    THEN [ok |-> TRUE, fs |-> [q \in DOMAIN f \ {target.path} |-> f[q]]]
    ELSE [ok |-> FALSE, fs |-> f]

----------------------------------------------------------------------------
(* The storage operations of the adapters *)

\* LocalStorageAdapter.getPublicUrl with an empty baseUrl
getPublicUrlLocal(key) ==
    "/uploads/courses/" \o Text(key)

\* CDN adapters' getPublicUrl
getPublicUrlCdn(key) ==
    "https://cdn.example.com/" \o Text(key)

UploadResult(key, url, size) ==
    [key |-> key, url |-> url, size |-> size]

\* what an adapter operation did: it threw or returned ret, left the storage
\* as fs/bucket, and aimed its write and delete calls at the paths `aimed`
Outcome(threw, ret, f, bk, aimed) ==
    [threw |-> threw, ret |-> ret, fs |-> f, bucket |-> bk, aimed |-> aimed]

writeFileTruncated(f, target, b, io) ==
    writeFile(f, target, <<>>, io)

\* fs.writeFile as uploadBuffer calls it
writeBuffer(f, target, b, io) ==
    writeFile(f, target, b, io)

\* LocalStorageAdapter.uploadBuffer(b, k)
uploadBufferLocal(f, bk, b, k, io) ==
    LET root == mkdir(f, UploadsDir)
        safe == sanitize(k)
        dest == pathJoin(UploadsDir, safe)
        made == mkdir(root.fs, dirname(dest.path))
        wrote == writeBuffer(made.fs, dest, b, io)
    IN  IF ~root.ok THEN Outcome(TRUE, None, f, bk, {})
        ELSE IF ~made.ok THEN Outcome(TRUE, None, root.fs, bk, {})
        ELSE IF ~wrote.ok THEN Outcome(TRUE, None, made.fs, bk, {dest.path})
        ELSE Outcome(FALSE, Some(UploadResult(safe, getPublicUrlLocal(safe), Len(b))),
                     wrote.fs, bk, {dest.path})

deleteFileLocalUncaught(f, bk, k, io) ==
    LET target == pathJoin(UploadsDir, k)
        gone == unlink(f, target, io)
    IN  Outcome(~gone.ok, gone.ok, gone.fs, bk, {target.path})

\* LocalStorageAdapter.deleteFile(k)
deleteFileLocal(f, bk, k, io) ==
    LET target == pathJoin(UploadsDir, k)
        gone == unlink(f, target, io)
    IN  Outcome(FALSE, gone.ok, gone.fs, bk, {target.path})

RECURSIVE deleteFilesLocalStopping(_, _, _, _)
deleteFilesLocalStopping(f, bk, keys, ios) ==
    IF keys = <<>> THEN Outcome(FALSE, 0, f, bk, {})
    ELSE LET one == deleteFileLocal(f, bk, Head(keys), Head(ios))
             rest == deleteFilesLocalStopping(one.fs, bk, Tail(keys), Tail(ios))
         IN  IF one.ret
             THEN Outcome(FALSE, 1 + rest.ret, rest.fs, bk, one.aimed \cup rest.aimed)
             ELSE Outcome(FALSE, 0, one.fs, bk, one.aimed)

\* LocalStorageAdapter.deleteFiles(keys); ios[i] is the outcome of the i-th unlink
RECURSIVE deleteFilesLocal(_, _, _, _)
deleteFilesLocal(f, bk, keys, ios) ==
    IF keys = <<>> THEN Outcome(FALSE, 0, f, bk, {})
    ELSE LET one == deleteFileLocal(f, bk, Head(keys), Head(ios))
             rest == deleteFilesLocal(one.fs, bk, Tail(keys), Tail(ios))
         IN  Outcome(FALSE, (IF one.ret THEN 1 ELSE 0) + rest.ret, rest.fs, bk,
                     one.aimed \cup rest.aimed)

\* a bucket with object k holding b
PutObject(bk, k, b) ==
    [q \in DOMAIN bk \cup {k} |-> IF q = k THEN b ELSE bk[q]]

\* a bucket without the objects ks
DeleteObjects(bk, ks) ==
    [q \in DOMAIN bk \ ks |-> bk[q]]

\* CloudFlareR2Adapter.uploadBuffer(b, k): the send() is not guarded
uploadBufferR2(f, bk, b, k, net) ==
    IF net = "ok"
    THEN Outcome(FALSE, Some(UploadResult(k, getPublicUrlCdn(k), Len(b))),
                 f, PutObject(bk, k, b), {})
    ELSE Outcome(TRUE, None, f, bk, {})

\* S3CloudFrontAdapter.uploadBuffer(b, k)
uploadBufferS3(f, bk, b, k, net) ==
    IF net = "ok"
    THEN Outcome(FALSE, Some(UploadResult(k, getPublicUrlCdn(k), Len(b))),
                 f, PutObject(bk, k, b), {})
    ELSE Outcome(TRUE, None, f, bk, {})

\* CloudFlareR2Adapter.deleteFile(k)
deleteFileR2(f, bk, k, net) ==
    IF net = "ok"
    THEN Outcome(FALSE, TRUE, f, DeleteObjects(bk, {k}), {})
    ELSE Outcome(FALSE, FALSE, f, bk, {})

\* S3CloudFrontAdapter.deleteFile(k)
deleteFileS3(f, bk, k, net) ==
    IF net = "ok"
    THEN Outcome(FALSE, TRUE, f, DeleteObjects(bk, {k}), {})
    ELSE Outcome(FALSE, FALSE, f, bk, {})

\* CloudFlareR2Adapter.deleteFiles(keys); Deleted is response.Deleted
deleteFilesR2(f, bk, keys, net, Deleted) ==
    IF net = "ok"
    THEN Outcome(FALSE, Cardinality(Deleted), f, DeleteObjects(bk, Deleted), {})
    ELSE Outcome(FALSE, 0, f, bk, {})

\* S3CloudFrontAdapter.deleteFiles(keys)
deleteFilesS3(f, bk, keys, net, Deleted) ==
    IF net = "ok"
    THEN Outcome(FALSE, Cardinality(Deleted), f, DeleteObjects(bk, Deleted), {})
    ELSE Outcome(FALSE, 0, f, bk, {})

\* adapter.uploadBuffer(b, k)
uploadBuffer(type, f, bk, b, k, io) ==
    CASE type = "local" -> uploadBufferLocal(f, bk, b, k, io)
      [] type = "cloudflare-r2" -> uploadBufferR2(f, bk, b, k, io)
      [] OTHER -> uploadBufferS3(f, bk, b, k, io)

\* adapter.deleteFile(k)
deleteFile(type, f, bk, k, io) ==
    CASE type = "local" -> deleteFileLocal(f, bk, k, io)
      [] type = "cloudflare-r2" -> deleteFileR2(f, bk, k, io)
      [] OTHER -> deleteFileS3(f, bk, k, io)

\* adapter.deleteFiles(keys)
deleteFiles(type, f, bk, keys, ios, net, Deleted) ==
    CASE type = "local" -> deleteFilesLocal(f, bk, keys, ios)
      [] type = "cloudflare-r2" -> deleteFilesR2(f, bk, keys, net, Deleted)
      [] OTHER -> deleteFilesS3(f, bk, keys, net, Deleted)

----------------------------------------------------------------------------
(* CdnService.purgeCache() *)

\* a CdnPurgeOptions value; `id` numbers the purgeCache() invocations
NoOptions ==
    [id |-> 0, purgeAll |-> None, courseId |-> None, pattern |-> None, keys |-> None]

NoResult ==
    [success |-> FALSE, purgedKeys |-> <<>>, message |-> "", cdnProvider |-> None]

\* JavaScript truthiness of an optional boolean and of an optional string
TruthyFlag(o) ==
    o # None /\ o[1] = TRUE

TruthyString(o) ==
    o # None /\ o[1] # ""

\* the course table behind storage.getCourse(): course c1 carries a stored
\* storage key, course c2 does not, any other id has no record
CourseIds ==
    {"c1", "c2"}

getCourse(courseId) ==
    IF courseId = "c1" THEN Some([id |-> "c1", storageKey |-> Some("courses/c1/package.zip")])
    ELSE IF courseId = "c2" THEN Some([id |-> "c2", storageKey |-> None])
    ELSE None

\* getCourseAssetKeys(courseId), given whether storage.getCourse() raised
getCourseAssetKeys(courseId, dbOutcome) ==
    IF dbOutcome = "error" THEN <<>>
    ELSE LET course == getCourse(courseId) IN
         IF course = None THEN <<>>
         ELSE IF TruthyString(course[1].storageKey) THEN <<course[1].storageKey[1]>>
         ELSE <<"courses/" \o courseId \o "/*">>

\* getKeysByPattern(pattern)
getKeysByPattern(pattern) ==
    <<pattern>>

\* the if / else-if chain of purgeCache that picks the purge strategy
purgeStrategyKeysFirst(o) ==
    IF o.keys # None /\ Len(o.keys[1]) > 0 THEN "keys"
    ELSE IF TruthyFlag(o.purgeAll) THEN "purgeAll"
    ELSE IF TruthyString(o.courseId) THEN "courseId"
    ELSE IF TruthyString(o.pattern) THEN "pattern"
    ELSE "none"

purgeStrategy(o) ==
    IF TruthyFlag(o.purgeAll) THEN "purgeAll"
    ELSE IF TruthyString(o.courseId) THEN "courseId"
    ELSE IF TruthyString(o.pattern) THEN "pattern"
    ELSE IF o.keys # None /\ Len(o.keys[1]) > 0 THEN "keys"
    ELSE "none"

\* `if (!storageAdapter.cdnEnabled)`: the short circuit of purgeCache
cdnDisabledNever(adapter) ==
    FALSE

cdnDisabled(adapter) ==
    ~adapter.cdnEnabled

\* `if (keysToPurge.length === 0)`
nothingToPurgeNever(keys) ==
    FALSE

nothingToPurge(keys) ==
    Len(keys) = 0

\* the results purgeCache returns
NotEnabledResult ==
    [success |-> TRUE, purgedKeys |-> <<>>,
     message |-> "CDN not enabled, no cache to purge", cdnProvider |-> None]

NoTargetResult ==
    [success |-> FALSE, purgedKeys |-> <<>>,
     message |-> "No purge target specified", cdnProvider |-> None]

NoKeysResult ==
    [success |-> TRUE, purgedKeys |-> <<>>,
     message |-> "No keys found to purge", cdnProvider |-> None]

\* the try / catch around `await storageAdapter.purgeCdnCache(keysToPurge)`
purgeOutcomeResultKeysKept(outcome, keys, type) ==
    [success |-> outcome = "true", purgedKeys |-> keys,
     message |-> "", cdnProvider |-> Some(type)]

purgeOutcomeResultNoKeys(outcome, keys, type) ==
    [success |-> outcome = "true", purgedKeys |-> <<>>,
     message |-> "", cdnProvider |-> Some(type)]

purgeOutcomeResult(outcome, keys, type) ==
    CASE outcome = "true" ->
            [success |-> TRUE, purgedKeys |-> keys,
             message |-> "Successfully purged", cdnProvider |-> Some(type)]
      [] outcome = "false" ->
            [success |-> FALSE, purgedKeys |-> <<>>,
             message |-> "CDN cache purge failed", cdnProvider |-> Some(type)]
      [] OTHER ->
            [success |-> FALSE, purgedKeys |-> <<>>,
             message |-> "Unknown error during cache purge", cdnProvider |-> Some(type)]

\* how the provider's invalidation API answers a purge: "accepted",
\* "refused", or "error" (the request raised)
NetOutcomes ==
    {"accepted", "refused", "error"}

\* CloudFlareR2Adapter.purgeCdnCache without its two guards
purgeCdnCacheR2Unguarded(e, net) ==
    IF net = "error" THEN "false" ELSE "true"

\* CloudFlareR2Adapter.purgeCdnCache
purgeCdnCacheR2(e, net) ==
    IF ~Has(e, "CLOUDFLARE_ZONE_ID") \/ ~Has(e, "CLOUDFLARE_API_TOKEN")
    THEN "false"
    ELSE IF net = "accepted" THEN "true" ELSE "false"

\* S3CloudFrontAdapter.purgeCdnCache
purgeCdnCacheS3(e, net) ==
    IF ~Has(e, DistributionKey)
    THEN "false"
    ELSE IF net = "accepted" THEN "true" ELSE "false"

\* LocalStorageAdapter.purgeCdnCache
purgeCdnCacheLocal ==
    "true"

\* storageAdapter.purgeCdnCache(keys), dispatched on the adapter's class
purgeCdnCache(adapter, e, net) ==
    CASE adapter.type = "cloudflare-r2" -> purgeCdnCacheR2(e, net)
      [] adapter.type = "s3-cloudfront" -> purgeCdnCacheS3(e, net)
      [] OTHER                          -> purgeCdnCacheLocal

\* the caller in which the CDN Service runs; the others use the Factory directly
CdnServiceCaller ==
    CHOOSE c \in Callers : \A d \in Callers : c <= d

\* the purge requests the callers issue
PurgeRequests ==
    [id       : {0},
     purgeAll : {None, Some(TRUE)},
     courseId : {None, Some("c1"), Some("c2"), Some("c3")},
     pattern  : {None, Some("courses/*/index.html")},
     keys     : {None, Some(<<>>), Some(<<"k1", "k2">>)}]

\* purgeCache(options) up to `await StorageFactory.getAdapter()`
PurgeCache(c, o) ==
    /\ CanCall(c)
    /\ purges < MaxPurges
    /\ purges' = purges + 1
    /\ opts' = [opts EXCEPT ![c] = [o EXCEPT !.id = purges + 1]]
    /\ keysToPurge' = [keysToPurge EXCEPT ![c] = <<>>]
    /\ purgeResult' = [purgeResult EXCEPT ![c] = NoResult]
    /\ CallGetAdapter(c, "purgeCache")
    /\ UNCHANGED <<purgeCalls, lookups, restVars>>

\* the CDN Service method a request came in through
Entered(c, method, list) ==
    /\ entry' = [entry EXCEPT ![c] = method]
    /\ urls' = [urls EXCEPT ![c] = list]

\* a caller invokes cdnService.purgeCache(options)
PurgeCacheCalled(c, o) ==
    /\ PurgeCache(c, o)
    /\ Entered(c, "purgeCache", <<>>)

\* a caller invokes cdnService.purgeCourseCache(courseId)
PurgeCourseCache(c, courseId) ==
    /\ PurgeCache(c, [NoOptions EXCEPT !.courseId = Some(courseId)])
    /\ Entered(c, "purgeCourseCache", <<>>)

\* A URL is the sequence of its parts: scheme, "//", host, then the pieces
\* of its path.  The URLs handed to purgeUrls: two with a path (one with a
\* doubled slash), one without a path, and one that is no URL
Urls ==
    {<<"https:", "//", "cdn.example.com", "/", "courses", "/", "123">>,
     <<"https:", "//", "cdn.example.com", "/", "/", "a">>,
     <<"https:", "//", "cdn.example.com">>,
     <<"not-a-valid-url">>}

UrlLists ==
    {<<>>} \cup {<<u>> : u \in Urls} \cup {<<u, v>> : u, v \in Urls}

\* new URL(url): the pathname, or a TypeError
parseUrl(url) ==
    IF Len(url) >= 3 /\ url[1] = "https:" /\ url[2] = "//" /\ url[3] \notin {"", "/"}
    THEN [ok |-> TRUE,
          pathname |-> IF Len(url) = 3 THEN <<"/">> ELSE SubSeq(url, 4, Len(url))]
    ELSE [ok |-> FALSE, pathname |-> <<>>]

urlToStorageKeyUnstripped(url) ==
    LET urlObj == parseUrl(url) IN
    IF urlObj.ok THEN Some(Text(urlObj.pathname)) ELSE None

\* urlToStorageKey(url): the key, or None for null
urlToStorageKey(url) ==
    LET urlObj == parseUrl(url) IN
    IF urlObj.ok THEN Some(Text(stripLeadingSlashes(urlObj.pathname))) ELSE None

\* urls.map(url => this.urlToStorageKey(url)).filter(Boolean)
RECURSIVE urlsToKeys(_)
urlsToKeys(list) ==
    IF list = <<>> THEN <<>>
    ELSE LET key == urlToStorageKey(Head(list)) IN
         (IF key # None /\ key[1] # "" THEN <<key[1]>> ELSE <<>>) \o urlsToKeys(Tail(list))

NoValidUrlsResult ==
    [success |-> FALSE, purgedKeys |-> <<>>, message |-> "No valid URLs provided",
     cdnProvider |-> None]

\* a caller invokes cdnService.purgeUrls(urls): it returns at once when no
\* URL gives a key, and otherwise goes on as purgeCache({ keys })
PurgeUrls(c, list) ==
    LET keys == urlsToKeys(list) IN
    /\ CanCall(c)
    /\ purges < MaxPurges
    /\ Entered(c, "purgeUrls", list)
    /\ IF Len(keys) = 0
       THEN /\ purges' = purges + 1
            /\ opts' = [opts EXCEPT ![c] = [NoOptions EXCEPT !.id = purges + 1]]
            /\ keysToPurge' = [keysToPurge EXCEPT ![c] = <<>>]
            /\ purgeResult' = [purgeResult EXCEPT ![c] = NoValidUrlsResult]
            /\ pc' = [pc EXCEPT ![c] = "done"]
            /\ op' = [op EXCEPT ![c] = "purgeUrls"]
            /\ UNCHANGED <<env, factoryVars, branch, awaiting, result, callEpoch, arrived,
                           purgeCalls, lookups, restVars>>
       ELSE PurgeCache(c, [NoOptions EXCEPT !.keys = Some(keys)])

\* purgeCache returns r
PurgeReturn(c, r) ==
    /\ pc' = [pc EXCEPT ![c] = "done"]
    /\ purgeResult' = [purgeResult EXCEPT ![c] = r]

\* purgeCache from `if (keysToPurge.length === 0)` to the call of purgeCdnCache
PurgeDispatch(c, keys) ==
    /\ keysToPurge' = [keysToPurge EXCEPT ![c] = keys]
    /\ IF nothingToPurge(keys)
       THEN /\ PurgeReturn(c, NoKeysResult)
            /\ UNCHANGED purgeCalls
       ELSE /\ pc' = [pc EXCEPT ![c] = "purging"]
            /\ purgeCalls' = Append(purgeCalls,
                   [id |-> opts[c].id, adapter |-> result[c], keys |-> keys,
                    outcome |-> "pending"])
            /\ UNCHANGED purgeResult

\* purgeCache resumed with the adapter: short circuit, strategy, key list
PurgeWithAdapter(c) ==
    /\ pc[c] = "resolved"
    /\ op[c] = "purgeCache"
    /\ LET strategy == purgeStrategy(opts[c]) IN
       IF cdnDisabled(AdapterOf(result[c]))
       THEN /\ PurgeReturn(c, NotEnabledResult)
            /\ UNCHANGED <<keysToPurge, purgeCalls, lookups>>
       ELSE CASE strategy = "purgeAll" ->
                    /\ PurgeDispatch(c, <<"*">>)
                    /\ UNCHANGED lookups
              [] strategy = "courseId" ->
                    /\ pc' = [pc EXCEPT ![c] = "lookup"]
                    /\ lookups' = Append(lookups,
                           [id |-> opts[c].id, courseId |-> opts[c].courseId[1],
                            outcome |-> "pending"])
                    /\ UNCHANGED <<keysToPurge, purgeResult, purgeCalls>>
              [] strategy = "pattern" ->
                    /\ PurgeDispatch(c, getKeysByPattern(opts[c].pattern[1]))
                    /\ UNCHANGED lookups
              [] strategy = "keys" ->
                    /\ PurgeDispatch(c, opts[c].keys[1])
                    /\ UNCHANGED lookups
              [] OTHER ->
                    /\ PurgeReturn(c, NoTargetResult)
                    /\ UNCHANGED <<keysToPurge, purgeCalls, lookups>>
    /\ UNCHANGED <<env, entryVars, restVars,
                   factoryVars, op, branch, awaiting, result, callEpoch, arrived,
                   opts, purges>>

\* index of the log entry of request id (0 if none)
EntryOf(log, id) ==
    IF \E i \in 1..Len(log) : log[i].id = id
    THEN CHOOSE i \in 1..Len(log) : log[i].id = id
    ELSE 0

\* storage.getCourse() answers; getCourseAssetKeys and purgeCache run on
LookupReturns(c, dbOutcome) ==
    /\ pc[c] = "lookup"
    /\ lookups' = [lookups EXCEPT ![EntryOf(lookups, opts[c].id)].outcome = dbOutcome]
    /\ PurgeDispatch(c, getCourseAssetKeys(opts[c].courseId[1], dbOutcome))
    /\ UNCHANGED <<env, entryVars, restVars,
                   factoryVars, op, branch, awaiting, result, callEpoch, arrived,
                   opts, purges>>

\* the provider answers the invalidation request; purgeCdnCache and
\* purgeCache run on to the return
PurgeReturns(c, net) ==
    /\ pc[c] = "purging"
    /\ LET a == AdapterOf(result[c])
           outcome == purgeCdnCache(a, env, net)
       IN /\ purgeCalls' = [purgeCalls EXCEPT
                 ![EntryOf(purgeCalls, opts[c].id)].outcome = outcome]
          /\ PurgeReturn(c, purgeOutcomeResult(outcome, keysToPurge[c], a.type))
    /\ UNCHANGED <<env, entryVars, restVars,
                   factoryVars, op, branch, awaiting, result, callEpoch, arrived,
                   opts, keysToPurge, lookups, purges>>

----------------------------------------------------------------------------
(* Initial states *)

\* the environments of the Factory: every provider selector, and for a CDN
\* provider every subset of its configuration keys
FactoryEnvs ==
    {[STORAGE_PROVIDER |-> p, present |-> {}] :
        p \in {None, Some(""), Some("local"), Some("gcs")}}
    \cup
    {[STORAGE_PROVIDER |-> Some("cloudflare-r2"), present |-> s \cup ZoneKeys] :
        s \in SUBSET R2Keys}
    \cup
    {[STORAGE_PROVIDER |-> Some("s3-cloudfront"), present |-> s] :
        s \in SUBSET (S3Keys \cup {DistributionKey})}

InitState ==
    /\ instance = 0
    /\ initializationPromise = 0
    /\ constructions = <<>>
    /\ resets = 0
    /\ returned = {}
    /\ racedReset = FALSE
    /\ calls = 0
    /\ pc = [c \in Callers |-> "idle"]
    /\ op = [c \in Callers |-> "none"]
    /\ branch = [c \in Callers |-> "none"]
    /\ awaiting = [c \in Callers |-> 0]
    /\ result = [c \in Callers |-> 0]
    /\ callEpoch = [c \in Callers |-> 0]
    /\ arrived = [c \in Callers |-> {}]
    /\ opts = [c \in Callers |-> NoOptions]
    /\ keysToPurge = [c \in Callers |-> <<>>]
    /\ purgeResult = [c \in Callers |-> NoResult]
    /\ purgeCalls = <<>>
    /\ lookups = <<>>
    /\ purges = 0

\* no CDN Service method entered
InitEntry ==
    /\ entry = [c \in Callers |-> "none"]
    /\ urls = [c \in Callers |-> <<>>]

\* no file name under the content-type policy
InitPolicyIdle ==
    /\ fileName = <<>>
    /\ contentType = None

\* no status reported
InitStatusIdle ==
    /\ status = [c \in Callers |-> None]

\* no migration script running
InitScriptIdle ==
    /\ migration = [pc |-> "none"]
    /\ db = <<>>
    /\ scriptLog = <<>>

\* no uploadCourseAssets running
InitUploadIdle ==
    /\ upload = [pc |-> "none"]

\* the Asset Service's policies and uploads at rest
InitServiceIdle ==
    /\ InitPolicyIdle
    /\ InitStatusIdle
    /\ InitScriptIdle
    /\ InitUploadIdle

\* no upload key under sanitization
InitKeyIdle ==
    /\ destinationKey = <<>>
    /\ safeKey = None
    /\ resanitized = None

\* no storage operation running
InitStoreIdle ==
    /\ storeAdapter = "none"
    /\ fs = <<>>
    /\ bucket = <<>>
    /\ lastOp = [name |-> "none"]
    /\ touched = {}
    /\ kept = None
    /\ storeOps = 0

\* the Asset Service has run nothing
InitAssetIdle ==
    /\ storageAdapter = 0
    /\ assetArgs = [c \in Callers |-> None]
    /\ assetHeld = [c \in Callers |-> 0]
    /\ assetUsed = [c \in Callers |-> 0]
    /\ assetRet = [c \in Callers |-> None]
    /\ adapterCalls = <<>>
    /\ assetOps = 0

Init ==
    /\ env \in FactoryEnvs
    /\ InitState
    /\ InitEntry
    /\ InitServiceIdle
    /\ InitKeyIdle
    /\ InitStoreIdle
    /\ InitAssetIdle

Next ==
    \/ \E c \in Callers : GetAdapter(c)
    \/ \E k \in ConstructionIds, isHealthy \in BOOLEAN : HealthCheckReturns(k, isHealthy)
    \/ \E c \in Callers : StarterResumes(c)
    \/ \E c \in Callers : JoinerResolves(c)
    \/ \E c \in Callers : GetAdapterDone(c)
    \/ Reset

Spec ==
    Init /\ [][Next]_vars

\* the environments of the CDN Service: each provider, fully configured with
\* and without the identifiers its purge needs, and one with a required
\* value missing
CdnEnvs ==
    {[STORAGE_PROVIDER |-> None, present |-> {}]}
    \cup
    {[STORAGE_PROVIDER |-> Some("cloudflare-r2"), present |-> R2Keys \cup z] :
        z \in {ZoneKeys, {"CLOUDFLARE_ZONE_ID"}, {}}}
    \cup
    {[STORAGE_PROVIDER |-> Some("s3-cloudfront"), present |-> S3Keys \cup d] :
        d \in {{DistributionKey}, {}}}
    \cup
    {[STORAGE_PROVIDER |-> Some("s3-cloudfront"),
      present |-> (S3Keys \ {"AWS_REGION"}) \cup {DistributionKey}]}

InitCdn ==
    /\ env \in CdnEnvs
    /\ InitState
    /\ InitEntry
    /\ InitServiceIdle
    /\ InitKeyIdle
    /\ InitStoreIdle
    /\ InitAssetIdle

NextCdn ==
    \/ \E o \in PurgeRequests : PurgeCacheCalled(CdnServiceCaller, o)
    \/ \E c \in Callers \ {CdnServiceCaller} : GetAdapter(c)
    \/ \E k \in ConstructionIds, isHealthy \in BOOLEAN : HealthCheckReturns(k, isHealthy)
    \/ \E c \in Callers : StarterResumes(c)
    \/ \E c \in Callers : JoinerResolves(c)
    \/ \E c \in Callers : GetAdapterDone(c)
    \/ \E c \in Callers : PurgeWithAdapter(c)
    \/ \E c \in Callers, dbOutcome \in {"ok", "error"} : LookupReturns(c, dbOutcome)
    \/ \E c \in Callers, net \in NetOutcomes : PurgeReturns(c, net)

SpecCdn ==
    InitCdn /\ [][NextCdn]_vars

\* the CDN Service entered through its wrappers purgeCourseCache and purgeUrls
NextWrappers ==
    \/ \E courseId \in {"c1", "c2", "c3"} : PurgeCourseCache(CdnServiceCaller, courseId)
    \/ \E list \in UrlLists : PurgeUrls(CdnServiceCaller, list)
    \/ \E c \in Callers \ {CdnServiceCaller} : GetAdapter(c)
    \/ \E k \in ConstructionIds, isHealthy \in BOOLEAN : HealthCheckReturns(k, isHealthy)
    \/ \E c \in Callers : StarterResumes(c)
    \/ \E c \in Callers : JoinerResolves(c)
    \/ \E c \in Callers : GetAdapterDone(c)
    \/ \E c \in Callers : PurgeWithAdapter(c)
    \/ \E c \in Callers, dbOutcome \in {"ok", "error"} : LookupReturns(c, dbOutcome)
    \/ \E c \in Callers, net \in NetOutcomes : PurgeReturns(c, net)

SpecWrappers ==
    InitCdn /\ [][NextWrappers]_vars

\* the CDN Service alone: purgeCache with every kind of options, and purgeUrls
NextResults ==
    \/ \E o \in PurgeRequests : PurgeCacheCalled(CdnServiceCaller, o)
    \/ \E list \in UrlLists : PurgeUrls(CdnServiceCaller, list)
    \/ \E k \in ConstructionIds, isHealthy \in BOOLEAN : HealthCheckReturns(k, isHealthy)
    \/ StarterResumes(CdnServiceCaller)
    \/ PurgeWithAdapter(CdnServiceCaller)
    \/ \E dbOutcome \in {"ok", "error"} : LookupReturns(CdnServiceCaller, dbOutcome)
    \/ \E net \in NetOutcomes : PurgeReturns(CdnServiceCaller, net)

SpecResults ==
    InitCdn /\ [][NextResults]_vars

----------------------------------------------------------------------------
(* Storage operations as steps *)

MaxStoreOps ==
    2

Buffers ==
    {<<>>, <<7>>, <<7, 9>>}

\* the keys the storage operations are called with: plain, nested, climbing
\* out of the directory, with a leading slash, and the name of a directory
StoreKeys ==
    {<<"a">>, <<"d", "/", "a">>, <<".", ".", "/", "a">>, <<"/", "a">>, <<"d">>}

\* key lists of deleteFiles: every list of at most two of the keys
KeyLists ==
    {<<>>} \cup {<<k>> : k \in StoreKeys} \cup {<<k, j>> : k, j \in StoreKeys}

\* the elements of a list
Range(list) ==
    {list[i] : i \in 1..Len(list)}

\* the disk before the adapter first runs: the uploads directory is not yet
\* made, and a file of another owner lies beside it
DiskFs ==
    [q \in {<<>>, <<"srv">>, <<"srv", "a">>} |->
        IF q = <<"srv", "a">> THEN File(<<5>>) ELSE Dir]

AdapterTypes ==
    {"local", "cloudflare-r2", "s3-cloudfront"}

\* bookkeeping common to the storage operations
StoreStep(name, keys, data, io, out, reported) ==
    /\ storeOps < MaxStoreOps
    /\ storeOps' = storeOps + 1
    /\ fs' = out.fs
    /\ bucket' = out.bucket
    /\ touched' = touched \cup out.aimed
    /\ lastOp' = [name |-> name, keys |-> keys, data |-> data, io |-> io,
                  threw |-> out.threw,
                  ret |-> out.ret, fsBefore |-> fs, bucketBefore |-> bucket,
                  aimed |-> out.aimed, reported |-> reported]

\* the kept upload is forgotten once a call is aimed at its file
KeptAfter(out) ==
    IF kept # None /\ kept[1].path \in out.aimed THEN None ELSE kept

\* adapter.uploadBuffer(b, k) from call to return
UploadBuffer(k, b, io) ==
    LET out == uploadBuffer(storeAdapter, fs, bucket, b, k, io) IN
    /\ StoreStep("uploadBuffer", <<k>>, b, <<io>>, out, {})
    /\ destinationKey' = k
    /\ safeKey' = IF storeAdapter = "local" THEN Some(sanitize(k)) ELSE None
    /\ kept' = IF storeAdapter = "local" /\ ~out.threw
               THEN Some([key |-> k, data |-> b, path |-> CHOOSE q \in out.aimed : TRUE])
               ELSE KeptAfter(out)
    /\ UNCHANGED <<env, factoryVars, callerVars, purgeVars, entryVars, serviceVars, assetVars,
                   storeAdapter, resanitized>>

\* the key an upload reported is handed to the sanitization again
Resanitize ==
    /\ safeKey # None
    /\ resanitized = None
    /\ resanitized' = Some(sanitize(safeKey[1]))
    /\ UNCHANGED <<env, factoryVars, callerVars, purgeVars, entryVars, serviceVars, assetVars,
                   storeVars, destinationKey, safeKey>>

\* adapter.deleteFile(k) from call to return
DeleteFile(k, io) ==
    LET out == deleteFile(storeAdapter, fs, bucket, k, io) IN
    /\ StoreStep("deleteFile", <<k>>, <<>>, <<io>>, out, {})
    /\ kept' = KeptAfter(out)
    /\ UNCHANGED <<env, factoryVars, callerVars, purgeVars, entryVars, serviceVars, assetVars,
                   keyVars, storeAdapter>>

\* adapter.deleteFiles(keys) from call to return
DeleteFiles(keys, ios, net, Deleted) ==
    LET out == deleteFiles(storeAdapter, fs, bucket, keys, ios, net, Deleted) IN
    /\ StoreStep("deleteFiles", keys, <<>>, IF storeAdapter = "local" THEN ios ELSE <<net>>,
                 out, IF storeAdapter # "local" /\ net = "ok" THEN Deleted ELSE {})
    /\ kept' = KeptAfter(out)
    /\ UNCHANGED <<env, factoryVars, callerVars, purgeVars, entryVars, serviceVars, assetVars,
                   keyVars, storeAdapter>>

\* what deleteFiles(keys) does not decide: for the Local adapter the outcome
\* of each unlink, for a CDN adapter that of the batch call and its Deleted
UnlinkOutcomes(keys) ==
    IF storeAdapter = "local" THEN [1..Len(keys) -> IoOutcomes] ELSE {<<>>}

BatchOutcomes ==
    IF storeAdapter = "local" THEN {"ok"} ELSE IoOutcomes

BatchDeleted(keys) ==
    IF storeAdapter = "local" THEN {{}} ELSE SUBSET Range(keys)

\* one upload of any key to the Local adapter, and its key sanitized again
InitKey ==
    /\ env = [STORAGE_PROVIDER |-> None, present |-> {}]
    /\ InitState
    /\ InitEntry
    /\ InitServiceIdle
    /\ InitAssetIdle
    /\ destinationKey \in KeysUpTo(MaxKeyLen)
    /\ safeKey = None
    /\ resanitized = None
    /\ storeAdapter = "local"
    /\ fs = DiskFs
    /\ bucket = <<>>
    /\ lastOp = [name |-> "none"]
    /\ touched = {}
    /\ kept = None
    /\ storeOps = 0

NextKey ==
    \/ \E b \in Buffers, io \in IoOutcomes :
          storeOps = 0 /\ UploadBuffer(destinationKey, b, io)
    \/ Resanitize

SpecKey ==
    InitKey /\ [][NextKey]_vars

\* any adapter, its storage operations called one after the other
InitStore ==
    /\ env = [STORAGE_PROVIDER |-> None, present |-> {}]
    /\ InitState
    /\ InitEntry
    /\ InitServiceIdle
    /\ InitAssetIdle
    /\ InitKeyIdle
    /\ storeAdapter \in AdapterTypes
    /\ fs = DiskFs
    /\ bucket = <<>>
    /\ lastOp = [name |-> "none"]
    /\ touched = {}
    /\ kept = None
    /\ storeOps = 0

NextStore ==
    \/ \E k \in StoreKeys, b \in Buffers, io \in IoOutcomes : UploadBuffer(k, b, io)
    \/ \E k \in StoreKeys, io \in IoOutcomes : DeleteFile(k, io)
    \/ \E keys \in KeyLists :
          \E ios \in UnlinkOutcomes(keys), net \in BatchOutcomes,
             Deleted \in BatchDeleted(keys) :
             DeleteFiles(keys, ios, net, Deleted)

SpecStore ==
    InitStore /\ [][NextStore]_vars

----------------------------------------------------------------------------
(* purgeCdnCache called on an adapter directly                              *)

\* whether purgeCdnCache gets as far as its request to the provider: the
\* fetch of the CloudFlare purge_cache endpoint, the send of the CloudFront
\* CreateInvalidationCommand
purgeRequestIssued(type, e) ==
    CASE type = "cloudflare-r2" ->
              Has(e, "CLOUDFLARE_ZONE_ID") /\ Has(e, "CLOUDFLARE_API_TOKEN")
      [] type = "s3-cloudfront" -> Has(e, DistributionKey)
      [] OTHER -> FALSE

\* adapter.purgeCdnCache(keys) from call to return: the whole body is in a
\* try whose catch returns false
purgeCdnCacheCall(type, e, keys, net) ==
    [threw   |-> FALSE,
     ret     |-> purgeCdnCache([type |-> type], e, net) = "true",
     request |-> IF purgeRequestIssued(type, e) THEN Some(keys) ELSE None]

\* the environments of a purge: any of the zone id, the API token and the
\* distribution id may be absent
PurgeEnvs ==
    {[STORAGE_PROVIDER |-> None, present |-> s] :
        s \in SUBSET (ZoneKeys \cup {DistributionKey})}

\* adapter.purgeCdnCache(keys) called, the provider answering net
PurgeCdnCacheStep(keys, net) ==
    LET out == purgeCdnCacheCall(storeAdapter, env, keys, net) IN
    /\ storeOps < MaxStoreOps
    /\ storeOps' = storeOps + 1
    /\ lastOp' = [name |-> "purgeCdnCache", keys |-> keys, net |-> net,
                  threw |-> out.threw, ret |-> out.ret, request |-> out.request]
    /\ UNCHANGED <<env, factoryVars, callerVars, purgeVars, entryVars, serviceVars, assetVars,
                   keyVars, storeAdapter, fs, bucket, touched, kept>>

InitPurge ==
    /\ env \in PurgeEnvs
    /\ InitState
    /\ InitEntry
    /\ InitServiceIdle
    /\ InitAssetIdle
    /\ InitKeyIdle
    /\ storeAdapter \in AdapterTypes
    /\ fs = DiskFs
    /\ bucket = <<>>
    /\ lastOp = [name |-> "none"]
    /\ touched = {}
    /\ kept = None
    /\ storeOps = 0

NextPurge ==
    \E keys \in KeyLists, net \in NetOutcomes : PurgeCdnCacheStep(keys, net)

SpecPurge ==
    InitPurge /\ [][NextPurge]_vars

----------------------------------------------------------------------------
(* The Asset Service: deleteCourseAssets on the adapter of getStorage()     *)

MaxAssetOps ==
    2

\* the storage key uploadCoursePackage gives the package of a course
PackageKey(courseId) ==
    <<"courses", "/">> \o courseId \o <<"/", "package", ".", "zip">>

\* the caller in which the Asset Service runs; the others use the Factory directly
AssetServiceCaller ==
    CHOOSE c \in Callers : \A d \in Callers : c <= d

\* the deleteCourseAssets calls, for the course c1 whose package is stored:
\* the storageKey is absent, empty, or the package key of the course
DeleteRequests ==
    {[courseId |-> <<"c1">>, storageKey |-> None],
     [courseId |-> <<"c1">>, storageKey |-> Some(<<>>)],
     [courseId |-> <<"c1">>, storageKey |-> Some(PackageKey(<<"c1">>))]}

\* `if (storageKey)`
TruthyKey(o) ==
    o # None /\ o[1] # <<>>

\* the disk with the package of course c1 stored by the Local adapter
CourseFs ==
    LET package == pathJoin(UploadsDir, PackageKey(<<"c1">>)).path
        made == mkdir(DiskFs, dirname(package)).fs
    IN  [q \in DOMAIN made \cup {package} |-> IF q = package THEN File(<<7, 9>>) ELSE made[q]]

\* the bucket with the package of course c1 stored by a CDN adapter
CourseBucket ==
    PutObject(<<>>, PackageKey(<<"c1">>), <<7, 9>>)

\* fs.rm(path, { recursive: true, force: true })
rmShallow(f, path, io) ==
    IF io = "ok"
    THEN [ok |-> TRUE, fs |-> [q \in DOMAIN f \ {path} |-> f[q]]]
    ELSE [ok |-> FALSE, fs |-> f]

rm(f, path, io) ==
    IF io = "ok"
    THEN [ok |-> TRUE, fs |-> [q \in {r \in DOMAIN f : ~Within(path, r)} |-> f[q]]]
    ELSE [ok |-> FALSE, fs |-> f]

\* LocalStorageAdapter.getAbsolutePath(`courses/${courseId}`)
coursePath(courseId) ==
    pathJoin(UploadsDir, <<"courses", "/">> \o courseId).path

purgeAfterDeleteAlways(success, adapter) ==
    TRUE

\* `if (success && storage.cdnEnabled)`
purgeAfterDelete(success, adapter) ==
    success /\ adapter.cdnEnabled

\* the caller that uses the Factory directly beside the Asset Service
FactoryCaller ==
    CHOOSE c \in Callers : \A d \in Callers : d <= c

AdapterCall(c, name, keys) ==
    [adapter |-> assetUsed[c], call |-> name, keys |-> keys]

\* deleteCourseAssets(courseId, storageKey) up to the await in getStorage():
\* the adapter kept in this.storageAdapter, or else StorageFactory.getAdapter()
DeleteCourseAssets(c, courseId, storageKey) ==
    /\ CanCall(c)
    /\ assetOps < MaxAssetOps
    /\ assetOps' = assetOps + 1
    /\ assetArgs' = [assetArgs EXCEPT ![c] =
           Some([courseId |-> courseId, storageKey |-> storageKey])]
    /\ assetHeld' = [assetHeld EXCEPT ![c] = instance]
    /\ assetRet' = [assetRet EXCEPT ![c] = None]
    /\ IF storageAdapter # 0
       THEN /\ assetUsed' = [assetUsed EXCEPT ![c] = storageAdapter]
            /\ pc' = [pc EXCEPT ![c] = "haveStorage"]
            /\ op' = [op EXCEPT ![c] = "deleteCourseAssets"]
            /\ UNCHANGED <<env, factoryVars, branch, awaiting, result, callEpoch, arrived>>
       ELSE /\ assetUsed' = [assetUsed EXCEPT ![c] = 0]
            /\ CallGetAdapter(c, "deleteCourseAssets")
    /\ adapterCalls' = <<>>
    /\ UNCHANGED <<purgeVars, entryVars, serviceVars, keyVars, storeVars, storageAdapter>>

\* getStorage() resumed with the Factory's adapter: it is kept and returned
GetStorageResumes(c) ==
    /\ pc[c] = "resolved"
    /\ op[c] \in {"deleteCourseAssets", "getStorageInfo", "uploadCourseAssets"}
    /\ storageAdapter' = result[c]
    /\ assetUsed' = [assetUsed EXCEPT ![c] = result[c]]
    /\ pc' = [pc EXCEPT ![c] = "haveStorage"]
    /\ UNCHANGED <<env, factoryVars, purgeVars, entryVars, serviceVars, keyVars, storeVars,
                   op, branch, awaiting, result, callEpoch, arrived,
                   assetArgs, assetHeld, assetRet, adapterCalls, assetOps>>

\* deleteCourseAssets resumed with `storage`: the key branch calls deleteFile,
\* the other branch removes the course directory or gives up
DeleteWithStorage(c) ==
    /\ pc[c] = "haveStorage"
    /\ op[c] = "deleteCourseAssets"
    /\ LET args == assetArgs[c][1] IN
       IF TruthyKey(args.storageKey)
       THEN /\ pc' = [pc EXCEPT ![c] = "deleting"]
            /\ adapterCalls' = Append(adapterCalls,
                   AdapterCall(c, "deleteFile", <<args.storageKey[1]>>))
            /\ UNCHANGED assetRet
       ELSE IF AdapterOf(assetUsed[c]).type = "local"
            THEN /\ pc' = [pc EXCEPT ![c] = "removing"]
                 /\ UNCHANGED <<assetRet, adapterCalls>>
            ELSE /\ pc' = [pc EXCEPT ![c] = "done"]
                 /\ assetRet' = [assetRet EXCEPT ![c] = Some(FALSE)]
                 /\ UNCHANGED adapterCalls
    /\ UNCHANGED <<env, factoryVars, purgeVars, entryVars, serviceVars, keyVars, storeVars,
                   op, branch, awaiting, result, callEpoch, arrived,
                   storageAdapter, assetArgs, assetHeld, assetUsed, assetOps>>

\* storage.deleteFile(storageKey) returns; the purge follows or the call returns
DeleteFileReturns(c, io) ==
    /\ pc[c] = "deleting"
    /\ LET a == AdapterOf(assetUsed[c])
           key == assetArgs[c][1].storageKey[1]
           out == deleteFile(a.type, fs, bucket, key, io)
       IN /\ fs' = out.fs
          /\ bucket' = out.bucket
          /\ touched' = touched \cup out.aimed
          /\ IF purgeAfterDelete(out.ret, a)
             THEN /\ pc' = [pc EXCEPT ![c] = "assetPurging"]
                  /\ adapterCalls' = Append(adapterCalls,
                         AdapterCall(c, "purgeCdnCache", <<key>>))
                  /\ UNCHANGED assetRet
             ELSE /\ pc' = [pc EXCEPT ![c] = "done"]
                  /\ assetRet' = [assetRet EXCEPT ![c] = Some(out.ret)]
                  /\ UNCHANGED adapterCalls
    /\ UNCHANGED <<env, factoryVars, purgeVars, entryVars, serviceVars, keyVars,
                   op, branch, awaiting, result, callEpoch, arrived,
                   storeAdapter, lastOp, kept, storeOps,
                   storageAdapter, assetArgs, assetHeld, assetUsed, assetOps>>

\* storage.purgeCdnCache([storageKey]) returns; its answer is not looked at
AssetPurgeReturns(c) ==
    /\ pc[c] = "assetPurging"
    /\ pc' = [pc EXCEPT ![c] = "done"]
    /\ assetRet' = [assetRet EXCEPT ![c] = Some(TRUE)]
    /\ UNCHANGED <<env, factoryVars, purgeVars, entryVars, serviceVars, keyVars, storeVars,
                   op, branch, awaiting, result, callEpoch, arrived,
                   storageAdapter, assetArgs, assetHeld, assetUsed, adapterCalls, assetOps>>

\* fs.rm of the course directory returns or raises
CourseDirRemoved(c, io) ==
    /\ pc[c] = "removing"
    /\ LET path == coursePath(assetArgs[c][1].courseId)
           gone == rm(fs, path, io)
       IN /\ fs' = gone.fs
          /\ touched' = touched \cup {path}
          /\ assetRet' = [assetRet EXCEPT ![c] = Some(gone.ok)]
    /\ pc' = [pc EXCEPT ![c] = "done"]
    /\ UNCHANGED <<env, factoryVars, purgeVars, entryVars, serviceVars, keyVars,
                   op, branch, awaiting, result, callEpoch, arrived,
                   storeAdapter, bucket, lastOp, kept, storeOps,
                   storageAdapter, assetArgs, assetHeld, assetUsed, adapterCalls, assetOps>>

\* the environments of the Asset Service: each provider, fully configured
AssetEnvs ==
    {[STORAGE_PROVIDER |-> None, present |-> {}],
     [STORAGE_PROVIDER |-> Some("cloudflare-r2"), present |-> R2Keys \cup ZoneKeys],
     [STORAGE_PROVIDER |-> Some("s3-cloudfront"), present |-> S3Keys \cup {DistributionKey}]}

InitAsset ==
    /\ env \in AssetEnvs
    /\ InitState
    /\ InitEntry
    /\ InitServiceIdle
    /\ InitKeyIdle
    /\ InitAssetIdle
    /\ storeAdapter = "none"
    /\ fs = CourseFs
    /\ bucket = CourseBucket
    /\ lastOp = [name |-> "none"]
    /\ touched = {}
    /\ kept = None
    /\ storeOps = 0

NextAsset ==
    \/ \E r \in DeleteRequests :
          DeleteCourseAssets(AssetServiceCaller, r.courseId, r.storageKey)
    \/ \E c \in Callers : GetStorageResumes(c)
    \/ \E c \in Callers : DeleteWithStorage(c)
    \/ \E c \in Callers, io \in IoOutcomes : DeleteFileReturns(c, io)
    \/ \E c \in Callers : AssetPurgeReturns(c)
    \/ \E c \in Callers, io \in IoOutcomes : CourseDirRemoved(c, io)
    \/ GetAdapter(FactoryCaller)
    \/ \E k \in ConstructionIds, isHealthy \in BOOLEAN : HealthCheckReturns(k, isHealthy)
    \/ \E c \in Callers : StarterResumes(c)
    \/ \E c \in Callers : JoinerResolves(c)
    \/ \E c \in Callers : GetAdapterDone(c)
    \/ Reset

SpecAsset ==
    InitAsset /\ [][NextAsset]_vars

----------------------------------------------------------------------------
(* The Asset Service's content-type policy (getContentType)                 *)
(*                                                                         *)
(* A file name is, like a key, the sequence of its pieces.                  *)

MaxNameLen ==
    4

NamePieces ==
    {".", "/", "a", "html", "HTML", "Htm", "css", "Js", "ZIP", "unknownext"}

RECURSIVE NamesUpTo(_)
NamesUpTo(n) ==
    IF n = 0 THEN {<<>>}
    ELSE LET shorter == NamesUpTo(n - 1) IN
         shorter \cup {Append(name, p) : name \in shorter, p \in NamePieces}

\* String.prototype.toLowerCase on one piece
keepCase(piece) ==
    piece

toLowerCase(piece) ==
    CASE piece = "HTML" -> "html"
      [] piece = "Htm"  -> "htm"
      [] piece = "Js"   -> "js"
      [] piece = "ZIP"  -> "zip"
      [] OTHER          -> piece

\* the name without its trailing slashes
RECURSIVE stripTrailingSlashes(_)
stripTrailingSlashes(name) ==
    IF name # <<>> /\ name[Len(name)] = "/"
    THEN stripTrailingSlashes(SubSeq(name, 1, Len(name) - 1))
    ELSE name

\* the last path component of a name
basename(name) ==
    LET n == stripTrailingSlashes(name)
        slashes == {i \in 1..Len(n) : n[i] = "/"}
        start == IF slashes = {} THEN 1
                 ELSE 1 + CHOOSE i \in slashes : \A j \in slashes : j <= i
    IN SubSeq(n, start, Len(n))

\* path.extname: from the last "." of the last path component to its end;
\* empty when there is no ".", when the last "." begins the component, and
\* for the component ".."
extname(name) ==
    LET base == basename(name)
        dots == {i \in 1..Len(base) : base[i] = "."}
        startDot == CHOOSE i \in dots : \A j \in dots : j <= i
    IN IF dots = {} THEN <<>>
       ELSE IF startDot = 1 THEN <<>>
       ELSE IF base = <<".", ".">> THEN <<>>
       ELSE SubSeq(base, startDot, Len(base))

\* the contentTypes record of getContentType
contentTypes ==
    (".html" :> "text/html") @@ (".htm" :> "text/html") @@ (".css" :> "text/css") @@
    (".js" :> "application/javascript") @@ (".json" :> "application/json") @@
    (".xml" :> "application/xml") @@ (".png" :> "image/png") @@
    (".jpg" :> "image/jpeg") @@ (".jpeg" :> "image/jpeg") @@ (".gif" :> "image/gif") @@
    (".svg" :> "image/svg+xml") @@ (".webp" :> "image/webp") @@
    (".mp4" :> "video/mp4") @@ (".webm" :> "video/webm") @@ (".mp3" :> "audio/mpeg") @@
    (".wav" :> "audio/wav") @@ (".ogg" :> "audio/ogg") @@ (".pdf" :> "application/pdf") @@
    (".zip" :> "application/zip") @@ (".txt" :> "text/plain")

\* AssetService.getContentType
getContentType(name) ==
    LET e == extname(name)
        ext == Text([i \in 1..Len(e) |-> toLowerCase(e[i])])
    IN IF ext \in DOMAIN contentTypes
       THEN contentTypes[ext]
       ELSE "application/octet-stream"

\* getContentType(fileName) is called and returns
GetContentType ==
    /\ contentType = None
    /\ contentType' = Some(getContentType(fileName))
    /\ UNCHANGED <<env, factoryVars, callerVars, purgeVars, entryVars,
                   keyVars, storeVars, assetVars, statusVars, scriptVars, uploadVars,
                   fileName>>

InitContent ==
    /\ env = [STORAGE_PROVIDER |-> None, present |-> {}]
    /\ InitState
    /\ InitEntry
    /\ InitAssetIdle
    /\ InitKeyIdle
    /\ InitStoreIdle
    /\ InitStatusIdle
    /\ InitScriptIdle
    /\ InitUploadIdle
    /\ fileName \in NamesUpTo(MaxNameLen)
    /\ contentType = None

NextContent ==
    GetContentType

SpecContent ==
    InitContent /\ [][NextContent]_vars

----------------------------------------------------------------------------
(* getCdnStatus() of the CDN Service and getStorageInfo() of the Asset      *)
(* Service: the adapter is fetched and its healthCheck() reported           *)

\* what a status call does besides fetching the adapter
StatusCalled(c) ==
    /\ status' = [status EXCEPT ![c] = None]
    /\ UNCHANGED <<purgeVars, entryVars, policyVars, scriptVars, uploadVars, keyVars,
                   storeVars, assetArgs, assetHeld, assetRet, adapterCalls, assetOps>>

\* a caller invokes cdnService.getCdnStatus()
GetCdnStatus(c) ==
    /\ CanCall(c)
    /\ CallGetAdapter(c, "getCdnStatus")
    /\ StatusCalled(c)
    /\ UNCHANGED <<storageAdapter, assetUsed>>

\* a caller invokes assetService.getStorageInfo(): getStorage() gives the
\* adapter it holds or fetches one from the Factory
GetStorageInfo(c) ==
    /\ CanCall(c)
    /\ IF storageAdapter # 0
       THEN /\ assetUsed' = [assetUsed EXCEPT ![c] = storageAdapter]
            /\ pc' = [pc EXCEPT ![c] = "haveStorage"]
            /\ op' = [op EXCEPT ![c] = "getStorageInfo"]
            /\ UNCHANGED <<env, factoryVars, branch, awaiting, result, callEpoch, arrived>>
       ELSE /\ assetUsed' = [assetUsed EXCEPT ![c] = 0]
            /\ CallGetAdapter(c, "getStorageInfo")
    /\ StatusCalled(c)
    /\ UNCHANGED storageAdapter

\* the adapter a status call reports on
StatusAdapter(c) ==
    IF op[c] = "getCdnStatus" THEN result[c] ELSE assetUsed[c]

\* the status call resumed with its adapter calls adapter.healthCheck()
StatusChecksHealth(c) ==
    /\ \/ pc[c] = "resolved" /\ op[c] = "getCdnStatus"
       \/ pc[c] = "haveStorage" /\ op[c] = "getStorageInfo"
    /\ pc' = [pc EXCEPT ![c] = "checkingHealth"]
    /\ UNCHANGED <<env, factoryVars, purgeVars, entryVars, restVars,
                   op, branch, awaiting, result, callEpoch, arrived>>

\* { enabled, provider, healthy } of getCdnStatus, { type, cdnEnabled,
\* healthy } of getStorageInfo
StatusReport(adapter, healthy) ==
    [type |-> adapter.type, cdnEnabled |-> adapter.cdnEnabled, healthy |-> healthy]

\* adapter.healthCheck() answers and the status is returned
StatusReturns(c, healthy) ==
    /\ pc[c] = "checkingHealth"
    /\ pc' = [pc EXCEPT ![c] = "done"]
    /\ status' = [status EXCEPT ![c] =
                     Some(StatusReport(AdapterOf(StatusAdapter(c)), healthy))]
    /\ UNCHANGED <<env, factoryVars, purgeVars, entryVars, policyVars, scriptVars,
                   uploadVars, keyVars, storeVars, assetVars,
                   op, branch, awaiting, result, callEpoch, arrived>>

\* the caller in which the two services run their status calls
StatusCaller ==
    CHOOSE c \in Callers : \A d \in Callers : c <= d

\* the environments of the status calls: Local, each CDN provider fully
\* configured, and a CDN provider without its bucket
StatusEnvs ==
    AssetEnvs \cup
    {[STORAGE_PROVIDER |-> Some("cloudflare-r2"),
      present |-> (R2Keys \ {"CLOUDFLARE_R2_BUCKET_NAME"}) \cup ZoneKeys]}

InitStatus ==
    /\ env \in StatusEnvs
    /\ InitState
    /\ InitEntry
    /\ InitServiceIdle
    /\ InitKeyIdle
    /\ InitStoreIdle
    /\ InitAssetIdle

NextStatus ==
    \/ GetCdnStatus(StatusCaller)
    \/ GetStorageInfo(StatusCaller)
    \/ \E c \in Callers : GetStorageResumes(c)
    \/ \E c \in Callers : StatusChecksHealth(c)
    \/ \E c \in Callers, healthy \in BOOLEAN : StatusReturns(c, healthy)
    \/ \E c \in Callers : GetAdapter(c)
    \/ \E k \in ConstructionIds, isHealthy \in BOOLEAN : HealthCheckReturns(k, isHealthy)
    \/ \E c \in Callers : StarterResumes(c)
    \/ \E c \in Callers : JoinerResolves(c)
    \/ \E c \in Callers : GetAdapterDone(c)
    \/ Reset

SpecStatus ==
    InitStatus /\ [][NextStatus]_vars

----------------------------------------------------------------------------
(* The CDN migration script (migrate-to-cdn): main() and migrateCourse()    *)

\* the caller in which the script runs
ScriptCaller ==
    CHOOSE c \in Callers : \A d \in Callers : c <= d

\* where the package of a course lies before the migration
PackagePath(courseId) ==
    <<"srv", "packages">> \o courseId

\* the course records before the migration: c1 lies on the local disk, c2 is
\* already marked as on the CDN, c3 has no local file
CourseRecords ==
    (<<"c1">> :> [id |-> <<"c1">>, cdnEnabled |-> FALSE, storageKey |-> None,
                  storagePath |-> Some(PackagePath(<<"c1">>))]) @@
    (<<"c2">> :> [id |-> <<"c2">>, cdnEnabled |-> TRUE,
                  storageKey |-> Some(PackageKey(<<"c2">>)),
                  storagePath |-> Some(PackagePath(<<"c2">>))]) @@
    (<<"c3">> :> [id |-> <<"c3">>, cdnEnabled |-> FALSE, storageKey |-> None,
                  storagePath |-> None])

\* storage.getCourses(): by id
CourseOrder ==
    <<(<<"c1">>), (<<"c2">>), (<<"c3">>)>>

\* the disk the script runs on: the packages of c1 and c2
PackagesFs ==
    [q \in {<<>>, <<"srv">>, <<"srv", "packages">>,
            PackagePath(<<"c1">>), PackagePath(<<"c2">>)} |->
        IF q = PackagePath(<<"c1">>) THEN File(<<7>>)
        ELSE IF q = PackagePath(<<"c2">>) THEN File(<<7, 9>>)
        ELSE Dir]

\* the command lines: --dry-run, --force, --course=<id>
MigrationOptions ==
    [dryRun : BOOLEAN, force : BOOLEAN,
     courseId : {None, Some(<<"c1">>), Some(<<"c9">>)}]

\* adapter.uploadFile(filePath, k): the file's bytes are stored under k as
\* uploadBuffer stores them (copyFile for Local, readFile and put for a CDN)
uploadFile(type, f, bk, filePath, k, io) ==
    uploadBuffer(type, f, bk, f[filePath].data, k, io)

\* the script leaves course `position` behind with one more in counter
NextCourse(m, counter) ==
    [m EXCEPT ![counter] = @ + 1,
              !.position = @ + 1,
              !.pc = IF m.position + 1 > Len(m.courses) THEN "finished" ELSE "course"]

\* process.exit(1)
Exited(m) ==
    [m EXCEPT !.pc = "exited"]

\* main() up to `await StorageFactory.getAdapter()`
MigrationMain(c) ==
    /\ migration.pc = "start"
    /\ IF getConfiguredProvider(env) = "local"
       THEN /\ migration' = Exited(migration)
            /\ UNCHANGED <<factoryVars, callerVars>>
       ELSE /\ migration' = [migration EXCEPT !.pc = "awaitAdapter"]
            /\ CallGetAdapter(c, "migrate")
    /\ UNCHANGED <<env, purgeVars, entryVars, policyVars, statusVars, uploadVars, db, scriptLog,
                   keyVars, storeVars, assetVars>>

\* main() resumed with the adapter calls storageAdapter.healthCheck()
MigrationChecksHealth(c) ==
    /\ migration.pc = "awaitAdapter"
    /\ pc[c] = "resolved"
    /\ pc' = [pc EXCEPT ![c] = "done"]
    /\ migration' = [migration EXCEPT !.pc = "checkingHealth", !.adapter = result[c]]
    /\ UNCHANGED <<env, factoryVars, purgeVars, entryVars, policyVars, statusVars,
                   uploadVars, db, scriptLog, keyVars, storeVars, assetVars,
                   op, branch, awaiting, result, callEpoch, arrived>>

\* the health check answers: exit, or fetch the courses
MigrationHealthAnswers(isHealthy) ==
    /\ migration.pc = "checkingHealth"
    /\ migration' = IF isHealthy
                    THEN [migration EXCEPT !.pc = "listing"]
                    ELSE Exited(migration)
    /\ UNCHANGED <<env, factoryVars, callerVars, purgeVars, entryVars, policyVars,
                   statusVars, uploadVars, db, scriptLog, keyVars, storeVars, assetVars>>

\* storage.getCourse(options.courseId) or storage.getCourses() answers
CoursesListed ==
    /\ migration.pc = "listing"
    /\ LET wanted == migration.options.courseId
           found == IF wanted = None
                    THEN [i \in 1..Len(CourseOrder) |-> db[CourseOrder[i]]]
                    ELSE IF wanted[1] \in DOMAIN db THEN <<db[wanted[1]]>> ELSE <<>>
       IN migration' =
              IF wanted # None /\ found = <<>>
              THEN Exited(migration)
              ELSE [migration EXCEPT !.courses = found,
                                     !.position = 1,
                                     !.pc = IF found = <<>> THEN "finished" ELSE "course"]
    /\ UNCHANGED <<env, factoryVars, callerVars, purgeVars, entryVars, policyVars,
                   statusVars, uploadVars, db, scriptLog, keyVars, storeVars, assetVars>>

\* migrateCourse(course, options) up to the getStorage() of
\* uploadCoursePackage, or to its return where it skips, fails or only
\* previews
MigrateCourse(c) ==
    /\ migration.pc = "course"
    /\ LET course == migration.courses[migration.position] IN
       IF course.cdnEnabled /\ ~migration.options.force
       THEN /\ migration' = NextCourse(migration, "skipped")
            /\ UNCHANGED <<factoryVars, callerVars, assetUsed>>
       ELSE IF course.storagePath = None
       THEN /\ migration' = NextCourse(migration, "skipped")
            /\ UNCHANGED <<factoryVars, callerVars, assetUsed>>
       ELSE IF ~IsFile(fs, course.storagePath[1])
       THEN /\ migration' = NextCourse(migration, "failed")
            /\ UNCHANGED <<factoryVars, callerVars, assetUsed>>
       ELSE IF migration.options.dryRun
       THEN /\ migration' = NextCourse(migration, "successful")
            /\ UNCHANGED <<factoryVars, callerVars, assetUsed>>
       ELSE IF storageAdapter # 0
       THEN /\ migration' = [migration EXCEPT !.pc = "uploading"]
            /\ assetUsed' = [assetUsed EXCEPT ![c] = storageAdapter]
            /\ UNCHANGED <<factoryVars, callerVars>>
       ELSE /\ migration' = [migration EXCEPT !.pc = "awaitStorage"]
            /\ assetUsed' = [assetUsed EXCEPT ![c] = 0]
            /\ CallGetAdapter(c, "migrate")
    /\ UNCHANGED <<env, purgeVars, entryVars, policyVars, statusVars, uploadVars, db, scriptLog,
                   keyVars, storeVars,
                   storageAdapter, assetArgs, assetHeld, assetRet, adapterCalls, assetOps>>

\* getStorage() resumed with the Factory's adapter; uploadFile is called
MigrationStorageResumes(c) ==
    /\ migration.pc = "awaitStorage"
    /\ pc[c] = "resolved"
    /\ pc' = [pc EXCEPT ![c] = "done"]
    /\ storageAdapter' = result[c]
    /\ assetUsed' = [assetUsed EXCEPT ![c] = result[c]]
    /\ migration' = [migration EXCEPT !.pc = "uploading"]
    /\ UNCHANGED <<env, factoryVars, purgeVars, entryVars, policyVars, statusVars,
                   uploadVars, db, scriptLog, keyVars, storeVars,
                   op, branch, awaiting, result, callEpoch, arrived,
                   assetArgs, assetHeld, assetRet, adapterCalls, assetOps>>

\* storage.uploadFile() returns or raises; on return storage.updateCourse()
\* is called
PackageUploaded(c, io) ==
    /\ migration.pc = "uploading"
    /\ LET course == migration.courses[migration.position]
           a == AdapterOf(assetUsed[c])
           out == uploadFile(a.type, fs, bucket, course.storagePath[1],
                             PackageKey(course.id), io)
       IN /\ fs' = out.fs
          /\ bucket' = out.bucket
          /\ touched' = touched \cup out.aimed
          /\ IF out.threw
             THEN /\ migration' = NextCourse(migration, "failed")
                  /\ UNCHANGED scriptLog
             ELSE /\ migration' = [migration EXCEPT !.pc = "updating",
                                                    !.storageKey = out.ret[1].key]
                  /\ scriptLog' = Append(scriptLog,
                         [event |-> "upload", courseId |-> course.id,
                          adapter |-> assetUsed[c], key |-> out.ret[1].key])
    /\ UNCHANGED <<env, factoryVars, callerVars, purgeVars, entryVars, policyVars,
                   statusVars, uploadVars, db, keyVars, assetVars,
                   storeAdapter, lastOp, kept, storeOps>>

\* storage.updateCourse(course.id, { storageKey, cdnEnabled: true }) returns
\* or raises
CourseUpdated(dbOutcome) ==
    /\ migration.pc = "updating"
    /\ LET course == migration.courses[migration.position] IN
       IF dbOutcome = "ok"
       THEN /\ db' = [db EXCEPT ![course.id].storageKey = Some(migration.storageKey),
                                 ![course.id].cdnEnabled = TRUE]
            /\ scriptLog' = Append(scriptLog,
                   [event |-> "update", courseId |-> course.id,
                    adapter |-> 0, key |-> migration.storageKey])
            /\ migration' = NextCourse(migration, "successful")
       ELSE /\ migration' = NextCourse(migration, "failed")
            /\ UNCHANGED <<db, scriptLog>>
    /\ UNCHANGED <<env, factoryVars, callerVars, purgeVars, entryVars, policyVars,
                   statusVars, uploadVars, keyVars, storeVars, assetVars>>

\* the environments of the script: no provider, an unknown one, and the CDN
\* providers with and without a required value
MigrationEnvs ==
    StatusEnvs \cup {[STORAGE_PROVIDER |-> Some("gcs"), present |-> {}]}

InitMigration ==
    /\ env \in MigrationEnvs
    /\ InitState
    /\ InitEntry
    /\ InitPolicyIdle
    /\ InitStatusIdle
    /\ InitUploadIdle
    /\ InitKeyIdle
    /\ InitAssetIdle
    /\ storeAdapter = "none"
    /\ fs = PackagesFs
    /\ bucket = <<>>
    /\ lastOp = [name |-> "none"]
    /\ touched = {}
    /\ kept = None
    /\ storeOps = 0
    /\ \E o \in MigrationOptions :
          migration = [pc |-> "start", options |-> o, adapter |-> 0, courses |-> <<>>,
                       position |-> 0, storageKey |-> <<>>,
                       successful |-> 0, failed |-> 0, skipped |-> 0]
    /\ db = CourseRecords
    /\ scriptLog = <<>>

NextMigration ==
    \/ MigrationMain(ScriptCaller)
    \/ \E k \in ConstructionIds, isHealthy \in BOOLEAN : HealthCheckReturns(k, isHealthy)
    \/ StarterResumes(ScriptCaller)
    \/ MigrationChecksHealth(ScriptCaller)
    \/ \E isHealthy \in BOOLEAN : MigrationHealthAnswers(isHealthy)
    \/ CoursesListed
    \/ MigrateCourse(ScriptCaller)
    \/ MigrationStorageResumes(ScriptCaller)
    \/ \E io \in IoOutcomes : PackageUploaded(ScriptCaller, io)
    \/ \E dbOutcome \in IoOutcomes : CourseUpdated(dbOutcome)

SpecMigration ==
    InitMigration /\ [][NextMigration]_vars

----------------------------------------------------------------------------
(* AssetService.uploadCourseAssets: the archive's files are extracted and   *)
(* uploaded one after the other                                             *)

MaxEntries ==
    3

\* the entries an archive may hold: files of one or two bytes and a directory
ZipEntries ==
    {[fileName |-> name, data |-> b] :
        name \in {<<"a">>, <<"b">>, <<"d", "/", "a">>}, b \in {<<7>>, <<7, 9>>}}
    \cup {[fileName |-> <<"d", "/">>, data |-> <<>>]}

RECURSIVE ArchivesUpTo(_)
ArchivesUpTo(n) ==
    IF n = 0 THEN {<<>>}
    ELSE LET shorter == ArchivesUpTo(n - 1) IN
         shorter \cup {Append(zip, e) : zip \in shorter, e \in ZipEntries}

\* files.set(fileName, fileContent) on a Map kept as the list of its entries
\* in insertion order: a key already present keeps its place
mapSet(files, name, data) ==
    IF \E i \in 1..Len(files) : files[i].fileName = name
    THEN LET i == CHOOSE j \in 1..Len(files) : files[j].fileName = name
         IN [files EXCEPT ![i].data = data]
    ELSE Append(files, [fileName |-> name, data |-> data])

\* entry.fileName.endsWith('/')
endsWithSlash(name) ==
    name # <<>> /\ name[Len(name)] = "/"

\* extractZipFiles: the entries are read in order, directory entries skipped
RECURSIVE extractInto(_, _)
extractInto(files, entries) ==
    IF entries = <<>> THEN files
    ELSE LET e == Head(entries) IN
         extractInto(IF endsWithSlash(e.fileName) THEN files
                     ELSE mapSet(files, e.fileName, e.data),
                     Tail(entries))

extractZipFiles(entries) ==
    extractInto(<<>>, entries)

\* `courses/${courseId}/assets/${fileName}`
AssetKey(courseId, name) ==
    <<"courses", "/">> \o courseId \o <<"/", "assets", "/">> \o name

\* uploadCourseAssets(zipPath, courseId), called once, up to the await in
\* getStorage()
UploadCourseAssets(c, zip, courseId) ==
    /\ CanCall(c)
    /\ upload.pc = "none"
    /\ assetOps' = assetOps + 1
    /\ upload' = [pc |-> "getStorage", zip |-> zip, courseId |-> courseId,
                  files |-> <<>>, position |-> 0, uploadedCount |-> 0, totalSize |-> 0,
                  attempts |-> <<>>, ret |-> None]
    /\ assetHeld' = [assetHeld EXCEPT ![c] = instance]
    /\ IF storageAdapter # 0
       THEN /\ assetUsed' = [assetUsed EXCEPT ![c] = storageAdapter]
            /\ pc' = [pc EXCEPT ![c] = "haveStorage"]
            /\ op' = [op EXCEPT ![c] = "uploadCourseAssets"]
            /\ UNCHANGED <<env, factoryVars, branch, awaiting, result, callEpoch, arrived>>
       ELSE /\ assetUsed' = [assetUsed EXCEPT ![c] = 0]
            /\ CallGetAdapter(c, "uploadCourseAssets")
    /\ UNCHANGED <<purgeVars, entryVars, policyVars, statusVars, scriptVars,
                   keyVars, storeVars,
                   storageAdapter, assetArgs, assetRet, adapterCalls>>

\* uploadCourseAssets resumed with `storage` calls extractZipFiles(zipPath)
ExtractCalled(c) ==
    /\ pc[c] = "haveStorage"
    /\ op[c] = "uploadCourseAssets"
    /\ pc' = [pc EXCEPT ![c] = "extracting"]
    /\ upload' = [upload EXCEPT !.pc = "extracting"]
    /\ UNCHANGED <<env, factoryVars, purgeVars, entryVars, policyVars, statusVars,
                   scriptVars, keyVars, storeVars, assetVars,
                   op, branch, awaiting, result, callEpoch, arrived>>

\* the result of uploadCourseAssets
AssetUploadResultSwapped(u, adapter) ==
    [storageKey |-> AssetKey(u.courseId, <<>>),
     cdnEnabled |-> adapter.cdnEnabled,
     fileSize |-> u.uploadedCount,
     assetCount |-> u.totalSize]

AssetUploadResult(u, adapter) ==
    [storageKey |-> AssetKey(u.courseId, <<>>),
     cdnEnabled |-> adapter.cdnEnabled,
     fileSize |-> u.totalSize,
     assetCount |-> u.uploadedCount]

\* the for loop of uploadCourseAssets from the top of iteration `position`
\* to the call of storage.uploadBuffer, or past its end to the return
UploadLoop(u, adapter) ==
    IF u.position > Len(u.files)
    THEN [u EXCEPT !.pc = "returned", !.ret = Some(AssetUploadResult(u, adapter))]
    ELSE [u EXCEPT !.pc = "uploading"]

\* extractZipFiles resolves with the files or rejects; the loop begins
ExtractReturns(c, zipOutcome) ==
    /\ pc[c] = "extracting"
    /\ LET u == [upload EXCEPT !.files = extractZipFiles(upload.zip), !.position = 1]
           after == IF zipOutcome = "ok"
                    THEN UploadLoop(u, AdapterOf(assetUsed[c]))
                    ELSE [upload EXCEPT !.pc = "raised"]
       IN /\ upload' = after
          /\ pc' = [pc EXCEPT ![c] = IF after.pc = "uploading" THEN "uploading" ELSE "done"]
    /\ UNCHANGED <<env, factoryVars, purgeVars, entryVars, policyVars, statusVars,
                   scriptVars, keyVars, storeVars, assetVars,
                   op, branch, awaiting, result, callEpoch, arrived>>

\* storage.uploadBuffer(buffer, storageKey) of the current file returns or
\* raises; the loop goes on to the next call, to the return, or is left by
\* the error
AssetUploaded(c, io) ==
    /\ pc[c] = "uploading"
    /\ LET file == upload.files[upload.position]
           key == AssetKey(upload.courseId, file.fileName)
           a == AdapterOf(assetUsed[c])
           out == uploadBuffer(a.type, fs, bucket, file.data, key, io)
           tried == [upload EXCEPT !.attempts =
                        Append(@, [key |-> key, data |-> file.data, threw |-> out.threw])]
           after == IF out.threw
                    THEN [tried EXCEPT !.pc = "raised"]
                    ELSE UploadLoop([tried EXCEPT !.uploadedCount = @ + 1,
                                                  !.totalSize = @ + Len(file.data),
                                                  !.position = @ + 1], a)
       IN /\ fs' = out.fs
          /\ bucket' = out.bucket
          /\ touched' = touched \cup out.aimed
          /\ adapterCalls' = Append(adapterCalls, AdapterCall(c, "uploadBuffer", <<key>>))
          /\ upload' = after
          /\ pc' = [pc EXCEPT ![c] = IF after.pc = "uploading" THEN "uploading" ELSE "done"]
    /\ UNCHANGED <<env, factoryVars, purgeVars, entryVars, policyVars, statusVars,
                   scriptVars, keyVars,
                   op, branch, awaiting, result, callEpoch, arrived,
                   storeAdapter, lastOp, kept, storeOps,
                   storageAdapter, assetArgs, assetHeld, assetUsed, assetRet, assetOps>>

InitUpload ==
    /\ env \in AssetEnvs
    /\ InitState
    /\ InitEntry
    /\ InitServiceIdle
    /\ InitKeyIdle
    /\ InitAssetIdle
    /\ storeAdapter = "none"
    /\ fs = DiskFs
    /\ bucket = <<>>
    /\ lastOp = [name |-> "none"]
    /\ touched = {}
    /\ kept = None
    /\ storeOps = 0

NextUpload ==
    \/ /\ upload.pc = "none"
       /\ \E zip \in ArchivesUpTo(MaxEntries) :
             UploadCourseAssets(AssetServiceCaller, zip, <<"c1">>)
    \/ \E k \in ConstructionIds, isHealthy \in BOOLEAN : HealthCheckReturns(k, isHealthy)
    \/ StarterResumes(AssetServiceCaller)
    \/ GetStorageResumes(AssetServiceCaller)
    \/ ExtractCalled(AssetServiceCaller)
    \/ \E zipOutcome \in IoOutcomes : ExtractReturns(AssetServiceCaller, zipOutcome)
    \/ \E io \in IoOutcomes : AssetUploaded(AssetServiceCaller, io)

SpecUpload ==
    InitUpload /\ [][NextUpload]_vars

----------------------------------------------------------------------------
(* The Factory under a fair event loop: a health check that was issued      *)
(* answers, and a continuation that can run does run                        *)

\* the environments of the fair runs: Local (no health check), a CDN
\* provider fully configured (health check), and one without its bucket
\* (the creation raises)
LiveEnvs ==
    {e \in StatusEnvs : e.STORAGE_PROVIDER # Some("s3-cloudfront")}

InitLive ==
    /\ env \in LiveEnvs
    /\ InitState
    /\ InitEntry
    /\ InitServiceIdle
    /\ InitKeyIdle
    /\ InitStoreIdle
    /\ InitAssetIdle

\* adapter.healthCheck() of some construction answers
HealthCheckCompletes ==
    \E k \in ConstructionIds, isHealthy \in BOOLEAN : HealthCheckReturns(k, isHealthy)

\* the microtask queue is drained: the continuation of some getAdapter() runs
ContinuationRuns ==
    \E c \in Callers : StarterResumes(c) \/ JoinerResolves(c)

NextLive ==
    \/ \E c \in Callers : GetAdapter(c)
    \/ HealthCheckCompletes
    \/ ContinuationRuns
    \/ \E c \in Callers : GetAdapterDone(c)
    \/ Reset

SpecLive ==
    /\ InitLive
    /\ [][NextLive]_vars
    /\ WF_vars(HealthCheckCompletes)
    /\ WF_vars(ContinuationRuns)

----------------------------------------------------------------------------
(* Properties of the Factory, checked under Spec *)

Resolved(c) ==
    pc[c] \in {"resolved", "done"} /\ result[c] # 0

\* C1: as long as no reset() has run while a construction was in flight,
\* the getAdapter() calls made between two resets share one construction
\* (hence at most one health check) and all resolve to the same adapter.
C1_SingleConstruction ==
    ~racedReset =>
        \A e \in 0..resets :
            /\ Cardinality({k \in ConstructionIds : constructions[k].epoch = e}) <= 1
            /\ Cardinality({r.adapter : r \in {x \in returned : x.epoch = e}}) <= 1

\* C1 witness: with no reset at all, a caller that started the construction
\* of a CDN adapter and a caller that joined it hold the same adapter.
C1_Witness ==
    /\ resets = 0
    /\ \E c1, c2 \in Callers :
        /\ c1 # c2
        /\ branch[c1] = "start" /\ branch[c2] = "join"
        /\ Resolved(c1) /\ Resolved(c2)
        /\ result[c1] = result[c2]
        /\ constructions[result[c1]].checked
        /\ Len(constructions) = 1

\* C2 (as claimed): under any interleaving of getAdapter() and reset(), at
\* most one construction is in progress, and a caller that arrives while a
\* construction is in progress receives the adapter of that construction.
C2_AtMostOneConstruction ==
    /\ Cardinality(InProgress) <= 1
    /\ \A c \in Callers :
        (Resolved(c) /\ arrived[c] # {}) => result[c] \in arrived[c]

\* C3 (as claimed): after reset() the cache is only ever populated by a
\* construction started after that reset, and every getAdapter() call
\* resolves to an adapter built by a construction that started no earlier
\* than the last reset preceding the call.
C3_ResetDiscardsInFlight ==
    /\ instance # 0 => constructions[instance].epoch = resets
    /\ \A c \in Callers :
        Resolved(c) => constructions[result[c]].epoch >= callEpoch[c]

\* a CDN provider is selected and one of its required values is missing
CdnSelectedWithMissingConfig(e) ==
    \/ e.STORAGE_PROVIDER = Some("cloudflare-r2") /\ R2Keys \ e.present # {}
    \/ e.STORAGE_PROVIDER = Some("s3-cloudfront") /\ S3Keys \ e.present # {}

\* C4: when a CDN provider is selected with a required configuration value
\* missing, no getAdapter() call rejects and every adapter returned is the
\* Local adapter (type 'local', cdnEnabled false).
C4_MissingConfigFallsBackToLocal ==
    CdnSelectedWithMissingConfig(env) =>
        \A c \in Callers :
            /\ pc[c] # "rejected"
            /\ Resolved(c) =>
                /\ AdapterOf(result[c]).type = "local"
                /\ ~AdapterOf(result[c]).cdnEnabled

\* C4 witness: such a configuration, and a getAdapter() call that returned.
C4_Witness ==
    /\ CdnSelectedWithMissingConfig(env)
    /\ \E c \in Callers :
        /\ pc[c] = "done"
        /\ branch[c] = "start"
        /\ AdapterOf(result[c]).type = "local"

\* C5: a construction whose health check answered false resolves to the
\* Local adapter, and a CDN-enabled adapter is cached only if its health
\* check answered true during its construction.
C5_UnhealthyCdnFallsBackToLocal ==
    /\ \A k \in ConstructionIds :
        constructions[k].healthAnswer = "false" =>
            /\ constructions[k].phase = "settled"
            /\ constructions[k].adapter.type = "local"
    /\ (instance # 0 /\ AdapterOf(instance).cdnEnabled) =>
            constructions[instance].healthAnswer = "true"
    /\ \A c \in Callers :
        (Resolved(c) /\ AdapterOf(result[c]).cdnEnabled) =>
            constructions[result[c]].healthAnswer = "true"

\* C5 witness: a fully configured CDN adapter failed its health check and
\* the Local adapter built in its place is the cached instance.
C5_Witness ==
    \E c \in Callers :
        /\ pc[c] = "done"
        /\ instance = result[c]
        /\ constructions[instance].checked
        /\ constructions[instance].healthAnswer = "false"
        /\ AdapterOf(instance).type = "local"

\* C6 (as claimed): every adapter getAdapter() returns was health-checked,
\* with healthCheck() answering true, while it was constructed.
C6_OnlyHealthCheckedAdapters ==
    \A c \in Callers :
        Resolved(c) => AdapterOf(result[c]).healthChecked

\* C6 (amended): every CDN-enabled adapter getAdapter() returns passed its
\* health check while it was constructed; every other adapter returned is
\* the Local adapter, which the Factory constructs without health-checking.
C6_CdnAdaptersHealthChecked ==
    \A c \in Callers :
        Resolved(c) =>
            LET a == AdapterOf(result[c]) IN
            /\ a.cdnEnabled => a.healthChecked
            /\ ~a.cdnEnabled => (a.type = "local" /\ ~a.healthChecked)

\* C6 witness: one caller holds a CDN adapter that passed its health check,
\* another holds a Local adapter built after a reset.
C6_Witness ==
    \E c1, c2 \in Callers :
        /\ pc[c1] = "done" /\ pc[c2] = "done"
        /\ AdapterOf(result[c1]).cdnEnabled
        /\ AdapterOf(result[c1]).healthChecked
        /\ AdapterOf(result[c2]).type = "local"

----------------------------------------------------------------------------
(* Properties of the CDN Service, checked under SpecCdn *)

\* caller c runs purgeCache on a CDN-enabled adapter
PurgingOnCdn(c) ==
    /\ op[c] = "purgeCache"
    /\ result[c] # 0
    /\ AdapterOf(result[c]).cdnEnabled

\* the key lists passed to purgeCdnCache on behalf of c's request
SentFor(c) ==
    {purgeCalls[i].keys : i \in {j \in 1..Len(purgeCalls) : purgeCalls[j].id = opts[c].id}}

PurgeCallsFor(c) ==
    {j \in 1..Len(purgeCalls) : purgeCalls[j].id = opts[c].id}

LookupsFor(c) ==
    {j \in 1..Len(lookups) : lookups[j].id = opts[c].id}

\* the strategy a request selects under the documented precedence
\* purgeAll > courseId > pattern > keys
TargetOf(o) ==
    IF o.purgeAll = Some(TRUE) THEN "purgeAll"
    ELSE IF o.courseId # None THEN "courseId"
    ELSE IF o.pattern # None THEN "pattern"
    ELSE IF o.keys # None /\ o.keys # Some(<<>>) THEN "keys"
    ELSE "none"

\* the key list a course id stands for
ExpectedCourseKeys(courseId) ==
    IF courseId = "c1" THEN <<"courses/c1/package.zip">>
    ELSE IF courseId = "c2" THEN <<"courses/c2/*">>
    ELSE <<>>

\* C7: on a CDN-enabled adapter a request is served by one strategy, at most
\* one purgeCdnCache call: purgeAll sends exactly ['*'] whatever else is set;
\* courseId without purgeAll sends only the keys of that course; pattern
\* without purgeAll and courseId sends exactly the pattern.
C7_PurgePrecedence ==
    \A c \in Callers :
        (PurgingOnCdn(c) /\ pc[c] \in {"purging", "done"}) =>
            LET o == opts[c] IN
            /\ Cardinality(PurgeCallsFor(c)) <= 1
            /\ TargetOf(o) = "purgeAll" => SentFor(c) = {<<"*">>}
            /\ TargetOf(o) = "courseId" =>
                    SentFor(c) \subseteq {ExpectedCourseKeys(o.courseId[1])}
            /\ TargetOf(o) = "pattern" => SentFor(c) = {<<o.pattern[1]>>}

\* C7 witness: a request with purgeAll, a courseId, a pattern and keys all
\* set was purged as ['*'].
C7_Witness ==
    \E c \in Callers :
        /\ PurgingOnCdn(c)
        /\ pc[c] = "done"
        /\ opts[c].purgeAll = Some(TRUE)
        /\ opts[c].courseId # None
        /\ opts[c].pattern # None
        /\ opts[c].keys = Some(<<"k1", "k2">>)
        /\ SentFor(c) = {<<"*">>}
        /\ purgeResult[c].success

\* C8: when the adapter is not CDN-enabled, purgeCache makes no course
\* lookup and no purgeCdnCache call, and returns success = true with
\* purgedKeys = [] whatever the request.
C8_LocalPurgeIsNoOp ==
    \A c \in Callers :
        (op[c] = "purgeCache" /\ result[c] # 0 /\ ~AdapterOf(result[c]).cdnEnabled) =>
            /\ pc[c] \in {"resolved", "done"}
            /\ PurgeCallsFor(c) = {}
            /\ LookupsFor(c) = {}
            /\ pc[c] = "done" =>
                    (purgeResult[c].success /\ purgeResult[c].purgedKeys = <<>>)

\* C8 witness: a request with explicit keys returned on the Local adapter.
C8_Witness ==
    \E c \in Callers :
        /\ op[c] = "purgeCache"
        /\ pc[c] = "done"
        /\ AdapterOf(result[c]).type = "local"
        /\ opts[c].keys = Some(<<"k1", "k2">>)
        /\ opts[c].courseId = None /\ opts[c].purgeAll = None

\* a failure occurred while c's purge ran: the course lookup raised, or
\* purgeCdnCache answered false or raised
PurgeFailed(c) ==
    \/ \E j \in LookupsFor(c) : lookups[j].outcome = "error"
    \/ \E j \in PurgeCallsFor(c) : purgeCalls[j].outcome \in {"false", "throw"}

\* C9 (as claimed): purgeCache never throws, and every failure during a
\* purge on a CDN-enabled adapter is reported with success = false.
C9_PurgeFailuresReported ==
    \A c \in Callers :
        op[c] = "purgeCache" =>
            /\ pc[c] # "rejected"
            /\ (PurgingOnCdn(c) /\ pc[c] = "done" /\ PurgeFailed(c)) =>
                    ~purgeResult[c].success

\* the request resolves to an empty key list
ResolvesEmpty(o) ==
    \/ TargetOf(o) = "courseId" /\ ExpectedCourseKeys(o.courseId[1]) = <<>>
    \/ TargetOf(o) = "none"

\* C10 (as claimed): on a CDN-enabled adapter a request that resolves to an
\* empty key list (unknown course, empty key list, no target) returns
\* success = true with purgedKeys = [] without calling purgeCdnCache.
C10_EmptyResolutionSucceeds ==
    \A c \in Callers :
        (PurgingOnCdn(c) /\ pc[c] = "done" /\ ResolvesEmpty(opts[c])) =>
            /\ purgeResult[c].success
            /\ purgeResult[c].purgedKeys = <<>>
            /\ PurgeCallsFor(c) = {}

\* C10 (amended): on a CDN-enabled adapter purgeCdnCache is not called for
\* a request that resolves to an empty key list; a courseId whose course
\* does not exist returns success = true with purgedKeys = [], while an
\* empty explicit key list or a request with no target returns
\* success = false with purgedKeys = [].
C10_EmptyCourseSucceedsNoTargetFails ==
    \A c \in Callers :
        (PurgingOnCdn(c) /\ ResolvesEmpty(opts[c])) =>
            /\ PurgeCallsFor(c) = {}
            /\ pc[c] # "purging"
            /\ pc[c] = "done" =>
                /\ purgeResult[c].purgedKeys = <<>>
                /\ purgeResult[c].success = (TargetOf(opts[c]) = "courseId")

\* C10 witness: a purge for a course that does not exist returned.
C10_Witness ==
    \E c \in Callers :
        /\ PurgingOnCdn(c)
        /\ pc[c] = "done"
        /\ TargetOf(opts[c]) = "courseId"
        /\ opts[c].courseId = Some("c3")
        /\ LookupsFor(c) # {}

----------------------------------------------------------------------------
(* Properties of the adapters' storage operations, checked under SpecKey    *)
(* and SpecStore                                                            *)

\* C11: every call of the Local adapter that writes or deletes is aimed at a
\* path inside the adapter's root directory, whatever the key
C11_NoCallOutsideRoot ==
    storeAdapter = "local" =>
        \A path \in touched : Within(UploadsDir, path)

NoLeadingSlash(k) ==
    k = <<>> \/ k[1] # "/"

NoDotDot(k) ==
    \A i \in 1..(Len(k) - 1) : ~(k[i] = "." /\ k[i + 1] = ".")

\* C12: the sanitized key never begins with "/" and never contains "..",
\* sanitizing it again changes nothing, and it is the key the upload reports
C12_SanitizeIdempotentSafe ==
    safeKey # None =>
        /\ NoLeadingSlash(safeKey[1])
        /\ NoDotDot(safeKey[1])
        /\ resanitized # None => resanitized[1] = safeKey[1]
        /\ (lastOp.name = "uploadBuffer" /\ ~lastOp.threw) =>
               lastOp.ret[1].key = safeKey[1]

\* an upload of a key with a leading slash and a ".." returned, and the key it
\* reported was sanitized again
C12_Witness ==
    /\ resanitized # None
    /\ destinationKey # <<>>
    /\ destinationKey[1] = "/"
    /\ ~NoDotDot(destinationKey)
    /\ safeKey[1] # <<>>
    /\ lastOp.name = "uploadBuffer"
    /\ ~lastOp.threw

WellFormed(k) ==
    NoLeadingSlash(k) /\ NoDotDot(k)

\* fs.readFile of {root}/{k}
ReadFile(f, k) ==
    LET target == pathJoin(UploadsDir, k) IN
    IF ~target.trailing /\ IsFile(f, target.path) THEN Some(f[target.path].data) ELSE None

\* C13: once the Local adapter's uploadBuffer(b, k) has returned for a
\* well-formed k, the file {root}/{k} holds exactly b, the result carries k
\* and the length of b, and the file still holds b as long as no later call
\* is aimed at it
C13_UploadBufferRoundTrip ==
    storeAdapter = "local" =>
        /\ (lastOp.name = "uploadBuffer" /\ ~lastOp.threw /\ WellFormed(lastOp.keys[1])) =>
               /\ ReadFile(fs, lastOp.keys[1]) = Some(lastOp.data)
               /\ lastOp.ret[1].key = lastOp.keys[1]
               /\ lastOp.ret[1].size = Len(lastOp.data)
        /\ (kept # None /\ WellFormed(kept[1].key)) =>
               ReadFile(fs, kept[1].key) = Some(kept[1].data)

\* a non-empty buffer was uploaded under a nested well-formed key, and a later
\* delete of another file succeeded
C13_Witness ==
    /\ storeAdapter = "local"
    /\ kept # None
    /\ WellFormed(kept[1].key)
    /\ Len(kept[1].key) > 1
    /\ kept[1].data # <<>>
    /\ lastOp.name = "deleteFile"
    /\ lastOp.ret = TRUE

\* the files of a filesystem
Files(f) ==
    {path \in DOMAIN f : f[path].kind = "file"}

C18_WitnessCdn ==
    /\ storeAdapter # "local"
    /\ lastOp.name = "deleteFile"
    /\ lastOp.io[1] = "error"
    /\ lastOp.ret = FALSE
    /\ lastOp.keys[1] \in DOMAIN bucket

\* the files deleteFiles could remove: those a key names whose unlink did not raise
Removable ==
    {pathJoin(UploadsDir, lastOp.keys[i]).path : i \in
        {j \in 1..Len(lastOp.keys) :
            /\ lastOp.io[j] = "ok"
            /\ ReadFile(lastOp.fsBefore, lastOp.keys[j]) # None}}

\* C19: deleteFiles never raises; for the Local adapter it removes every file
\* it can, also after a key that failed, and returns how many it removed; for
\* a CDN adapter it returns the number of objects the backend reports deleted,
\* or 0 when the batch call raises
C19_DeleteFilesBestEffort ==
    lastOp.name = "deleteFiles" =>
        /\ ~lastOp.threw
        /\ IF storeAdapter = "local"
           THEN /\ Files(lastOp.fsBefore) \ Files(fs) = Removable
                /\ Files(fs) \subseteq Files(lastOp.fsBefore)
                /\ lastOp.ret = Cardinality(Removable)
           ELSE lastOp.ret = IF lastOp.io[1] = "ok" THEN Cardinality(lastOp.reported) ELSE 0

\* the Local adapter was given two keys, the first of a missing file, and
\* removed the file of the second
C19_Witness ==
    /\ storeAdapter = "local"
    /\ lastOp.name = "deleteFiles"
    /\ Len(lastOp.keys) = 2
    /\ ReadFile(lastOp.fsBefore, lastOp.keys[1]) = None
    /\ WellFormed(lastOp.keys[2])
    /\ lastOp.ret = 1

\* a CDN adapter's backend reported one of two keys deleted
C19_WitnessCdn ==
    /\ storeAdapter # "local"
    /\ lastOp.name = "deleteFiles"
    /\ Len(lastOp.keys) = 2
    /\ lastOp.ret = 1

----------------------------------------------------------------------------
(* Properties of the Asset Service, checked under SpecAsset *)

\* caller c runs deleteCourseAssets and getStorage() has given it its adapter
HasStorage(c) ==
    /\ op[c] = "deleteCourseAssets"
    /\ pc[c] \in {"haveStorage", "deleting", "assetPurging", "removing", "done"}

\* C14: an Asset Service operation that begins while the Factory holds an
\* instance uses that instance
C14_ServicesUseFactoryInstance ==
    \A c \in Callers :
        (HasStorage(c) /\ assetHeld[c] # 0) => assetUsed[c] = assetHeld[c]

\* caller c has returned from deleteCourseAssets called with a storage key
DeletedByKey(c) ==
    /\ op[c] = "deleteCourseAssets"
    /\ pc[c] = "done"
    /\ TruthyKey(assetArgs[c][1].storageKey)

DeleteCall(c) ==
    AdapterCall(c, "deleteFile", <<assetArgs[c][1].storageKey[1]>>)

PurgeCall(c) ==
    AdapterCall(c, "purgeCdnCache", <<assetArgs[c][1].storageKey[1]>>)

\* C20 as stated: deleteFile(key) first, then purgeCdnCache([key]) whenever
\* the adapter is CDN-enabled, and no purge on another adapter
C20_PurgeWheneverCdnEnabled ==
    \A c \in Callers :
        DeletedByKey(c) =>
            adapterCalls = IF AdapterOf(assetUsed[c]).cdnEnabled
                           THEN <<DeleteCall(c), PurgeCall(c)>>
                           ELSE <<DeleteCall(c)>>

\* C20 amended: deleteFile(key) first, then purgeCdnCache([key]) exactly when
\* deleteFile returned true and the adapter is CDN-enabled; the calls in
\* progress are always a prefix of that order
C20_PurgeAfterSuccessfulDelete ==
    \A c \in Callers :
        /\ DeletedByKey(c) =>
               /\ adapterCalls = IF AdapterOf(assetUsed[c]).cdnEnabled /\ assetRet[c] = Some(TRUE)
                                 THEN <<DeleteCall(c), PurgeCall(c)>>
                                 ELSE <<DeleteCall(c)>>
               /\ assetRet[c] \in {Some(TRUE), Some(FALSE)}
        /\ (op[c] = "deleteCourseAssets" /\ pc[c] = "deleting") =>
               adapterCalls = <<DeleteCall(c)>>
        /\ (op[c] = "deleteCourseAssets" /\ pc[c] = "assetPurging") =>
               /\ adapterCalls = <<DeleteCall(c), PurgeCall(c)>>
               /\ AdapterOf(assetUsed[c]).cdnEnabled

\* a CDN adapter deleted the package and the purge for its key followed
C20_Witness ==
    \E c \in Callers :
        /\ DeletedByKey(c)
        /\ AdapterOf(assetUsed[c]).cdnEnabled
        /\ adapterCalls = <<DeleteCall(c), PurgeCall(c)>>
        /\ assetArgs[c][1].storageKey[1] \notin DOMAIN bucket

----------------------------------------------------------------------------
(* Properties of the CDN Service's key lists and wrappers, checked under    *)
(* SpecCdn and SpecWrappers                                                 *)

\* the request of caller c carries a non-empty key list and nothing else
OnlyKeys(c) ==
    /\ opts[c].purgeAll = None
    /\ opts[c].courseId = None
    /\ opts[c].pattern = None
    /\ opts[c].keys # None
    /\ opts[c].keys[1] # <<>>

\* C15: a request carrying only a non-empty key list on a CDN-enabled adapter
\* makes exactly one purgeCdnCache call, with exactly that list, and when the
\* call returns true the result carries that list and the adapter's type
C15_ExplicitKeysPassedExactly ==
    \A c \in Callers :
        (PurgingOnCdn(c) /\ OnlyKeys(c) /\ pc[c] \in {"purging", "done"}) =>
            /\ Cardinality(PurgeCallsFor(c)) = 1
            /\ SentFor(c) = {opts[c].keys[1]}
            /\ \A j \in PurgeCallsFor(c) :
                   /\ purgeCalls[j].adapter = result[c]
                   /\ (pc[c] = "done" /\ purgeCalls[j].outcome = "true") =>
                          /\ purgeResult[c].success
                          /\ purgeResult[c].purgedKeys = opts[c].keys[1]
                          /\ purgeResult[c].cdnProvider = Some(AdapterOf(result[c]).type)

\* a request with only the keys k1, k2 was purged on a CDN adapter
C15_Witness ==
    \E c \in Callers :
        /\ PurgingOnCdn(c)
        /\ OnlyKeys(c)
        /\ pc[c] = "done"
        /\ purgeResult[c].success
        /\ purgeResult[c].purgedKeys = <<"k1", "k2">>

\* C16: purgeCourseCache of an existing course on a CDN-enabled adapter passes
\* exactly the pattern courses/{courseId}/* to purgeCdnCache
C16_CoursePrefixPattern ==
    \A c \in Callers :
        (/\ entry[c] = "purgeCourseCache"
         /\ PurgingOnCdn(c)
         /\ pc[c] = "done"
         /\ getCourse(opts[c].courseId[1]) # None
         /\ \A j \in LookupsFor(c) : lookups[j].outcome = "ok") =>
            SentFor(c) = {<<"courses/" \o opts[c].courseId[1] \o "/*">>}

\* the URL parses
Parseable(url) ==
    parseUrl(url).ok

\* the URL without scheme, host and leading slashes
KeyOfUrl(url) ==
    Text(stripLeadingSlashes(SubSeq(url, 4, Len(url))))

\* the keys of the URLs of a list that are in the set Kept, in order
RECURSIVE KeysOfUrls(_, _)
KeysOfUrls(list, Kept) ==
    IF list = <<>> THEN <<>>
    ELSE (IF Head(list) \in Kept THEN <<KeyOfUrl(Head(list))>> ELSE <<>>)
         \o KeysOfUrls(Tail(list), Kept)

\* purgeUrls called by c returned: with the failure result and without
\* asking for an adapter if `keys` is empty, and else as purgeCache({ keys })
PurgedUrlsAs(c, keys) ==
    IF keys = <<>>
    THEN /\ op[c] = "purgeUrls"
         /\ ~purgeResult[c].success
         /\ purgeResult[c].purgedKeys = <<>>
         /\ PurgeCallsFor(c) = {}
    ELSE /\ op[c] = "purgeCache"
         /\ opts[c] = [NoOptions EXCEPT !.id = opts[c].id, !.keys = Some(keys)]
         /\ PurgingOnCdn(c) =>
                /\ SentFor(c) = {keys}
                /\ purgeResult[c].success => purgeResult[c].purgedKeys = keys

YieldsKey(url) ==
    Parseable(url) /\ KeyOfUrl(url) # ""

----------------------------------------------------------------------------
(* Properties of deleteCourseAssets without a key, checked under SpecAsset  *)

\* caller c runs deleteCourseAssets without a usable storage key
DeletingByCourse(c) ==
    /\ op[c] = "deleteCourseAssets"
    /\ assetArgs[c] # None
    /\ ~TruthyKey(assetArgs[c][1].storageKey)

\* the step in which deleteCourseAssets of caller c returns
AssetReturns(c) ==
    /\ pc[c] \in {"haveStorage", "removing"}
    /\ pc'[c] = "done"

\* nothing is stored in or under the course directory of c's call
CourseDirGone(f, c) ==
    \A path \in DOMAIN f : ~Within(coursePath(assetArgs[c][1].courseId), path)

\* what is stored outside the course directory of c's call
OutsideCourseDir(f, c) ==
    {<<path, f[path]>> : path \in
        {q \in DOMAIN f : ~Within(coursePath(assetArgs[c][1].courseId), q)}}

C21_WitnessCdn ==
    \E c \in Callers :
        /\ DeletingByCourse(c)
        /\ pc[c] = "done"
        /\ AdapterOf(assetUsed[c]).cdnEnabled
        /\ assetRet[c] = Some(FALSE)
        /\ bucket = CourseBucket

----------------------------------------------------------------------------
(* Properties of purgeCdnCache on the CDN adapters, checked under SpecPurge *)

\* the last call was purgeCdnCache on a CDN adapter
PurgedOnCdn ==
    /\ lastOp.name = "purgeCdnCache"
    /\ storeAdapter \in {"cloudflare-r2", "s3-cloudfront"}

\* what the adapter's purge needs from the environment
PurgeConfigured ==
    IF storeAdapter = "s3-cloudfront"
    THEN DistributionKey \in env.present
    ELSE ZoneKeys \subseteq env.present

\* C22: purgeCdnCache of a CDN adapter never throws; without the distribution
\* id (S3) or the zone id or API token (R2) it returns false and issues no
\* request; a refused or raising request gives false; it returns true only
\* after a request for the given keys that the provider accepted
C22_PurgeCdnCacheNeverThrows ==
    PurgedOnCdn =>
        /\ ~lastOp.threw
        /\ ~PurgeConfigured => (~lastOp.ret /\ lastOp.request = None)
        /\ (PurgeConfigured /\ lastOp.net # "accepted") => ~lastOp.ret
        /\ lastOp.ret => (lastOp.request = Some(lastOp.keys) /\ lastOp.net = "accepted")

\* the R2 adapter lacked its API token and gave false without a request
C22_Witness ==
    /\ PurgedOnCdn
    /\ storeAdapter = "cloudflare-r2"
    /\ "CLOUDFLARE_ZONE_ID" \in env.present
    /\ "CLOUDFLARE_API_TOKEN" \notin env.present
    /\ ~lastOp.ret
    /\ lastOp.request = None

\* the provider accepted the purge of two keys and the adapter gave true
C22_WitnessAccepted ==
    /\ PurgedOnCdn
    /\ lastOp.ret
    /\ Len(lastOp.keys) = 2
    /\ lastOp.request = Some(lastOp.keys)

----------------------------------------------------------------------------
(* Properties of the content-type policy, checked under SpecContent         *)

\* the spellings of an extension among the pieces of the names
Casings(ext) ==
    CASE ext = "html" -> {"html", "HTML"}
      [] ext = "htm"  -> {"htm", "Htm"}
      [] ext = "js"   -> {"js", "Js"}
      [] ext = "zip"  -> {"zip", "ZIP"}
      [] OTHER        -> {ext}

\* the name ends in the extension ext in some casing: a "." that does not
\* begin the last path component, then ext up to the end of the name
HasExtension(name, ext) ==
    /\ Len(name) >= 3
    /\ name[Len(name)] \in Casings(ext)
    /\ name[Len(name) - 1] = "."
    /\ name[Len(name) - 2] # "/"

\* the name is a file name without extension: its last path component has
\* no "." but possibly a leading one
NoExtension(name) ==
    /\ name # <<>>
    /\ name[Len(name)] # "/"
    /\ \A i \in 1..Len(name) :
          name[i] = "." =>
              \/ \E j \in (i + 1)..Len(name) : name[j] = "/"
              \/ i = 1
              \/ name[i - 1] = "/"

\* C23: getContentType goes by the last extension of the name in any casing:
\* html and htm give text/html, css text/css, js application/javascript, zip
\* application/zip; an extension outside the table, and a name without
\* extension, give application/octet-stream
C23_ContentTypeByLastExtension ==
    contentType # None =>
        /\ (HasExtension(fileName, "html") \/ HasExtension(fileName, "htm"))
               => contentType = Some("text/html")
        /\ HasExtension(fileName, "css") => contentType = Some("text/css")
        /\ HasExtension(fileName, "js") => contentType = Some("application/javascript")
        /\ HasExtension(fileName, "zip") => contentType = Some("application/zip")
        /\ (HasExtension(fileName, "unknownext") \/ HasExtension(fileName, "a")
                \/ NoExtension(fileName))
               => contentType = Some("application/octet-stream")

\* css.HTML has the type of its last extension, whatever its casing
C23_Witness ==
    /\ fileName = <<"css", ".", "HTML">>
    /\ contentType = Some("text/html")

\* .css.unknownext is not typed by its first extension
C23_WitnessUnknown ==
    /\ fileName = <<".", "css", ".", "unknownext">>
    /\ contentType = Some("application/octet-stream")

----------------------------------------------------------------------------
(* Properties of the cached instance under status calls, checked under      *)
(* SpecStatus                                                               *)

\* the step in which caller c invokes StorageFactory.getAdapter()
InvokesGetAdapter(c) ==
    /\ calls' = calls + 1
    /\ pc[c] \in {"idle", "done"}
    /\ pc'[c] \notin {"idle", "done"}

\* the step in which the status call of caller c returns its report
ReportsStatus(c) ==
    /\ pc[c] = "checkingHealth"
    /\ pc'[c] = "done"

\* C24: with an instance cached, a getAdapter() call resolves to it at once,
\* starting no construction and no health check; a status report, healthy
\* or not, leaves the Factory's instance and constructions as they were
C24_CachedInstanceNeverRevalidated ==
    [][\A c \in Callers :
          /\ (instance # 0 /\ InvokesGetAdapter(c)) =>
                 /\ pc'[c] = "resolved"
                 /\ result'[c] = instance
                 /\ instance' = instance
                 /\ constructions' = constructions
                 /\ initializationPromise' = initializationPromise
          /\ ReportsStatus(c) =>
                 /\ status'[c] # None
                 /\ instance' = instance
                 /\ constructions' = constructions
                 /\ initializationPromise' = initializationPromise
                 /\ storageAdapter' = storageAdapter]_vars

\* a caller whose status call reported the cached CDN adapter unhealthy then
\* called getAdapter() and got the same adapter from the cache
C24_Witness ==
    \E c \in Callers :
        /\ status[c] # None
        /\ ~status[c][1].healthy
        /\ status[c][1].cdnEnabled
        /\ op[c] = "getAdapter"
        /\ branch[c] = "cached"
        /\ result[c] = instance
        /\ AdapterOf(instance).cdnEnabled
        /\ resets = 0

----------------------------------------------------------------------------
(* Properties of the configuration validation, checked under Spec           *)

\* C25: with a CDN provider selected and a required value missing, every
\* construction fails before a CDN adapter exists: it never holds a CDN
\* adapter and its health check is neither issued nor answered; the S3
\* provider with its five required values goes on to the health check
\* whether or not the distribution id is set
C25_ValidationBeforeHealthCheck ==
    \A k \in ConstructionIds :
        /\ CdnSelectedWithMissingConfig(env) =>
               /\ ~constructions[k].checked
               /\ constructions[k].healthAnswer = "none"
               /\ constructions[k].phase # "checking"
               /\ ~constructions[k].adapter.cdnEnabled
        /\ (env.STORAGE_PROVIDER = Some("s3-cloudfront") /\ S3Keys \subseteq env.present) =>
               constructions[k].checked

\* the R2 provider lacks one value and a getAdapter() call has come back
C25_Witness ==
    /\ env.STORAGE_PROVIDER = Some("cloudflare-r2")
    /\ R2Keys \ env.present = {"CLOUDFLARE_R2_CDN_DOMAIN"}
    /\ \E c \in Callers :
          /\ pc[c] = "done"
          /\ branch[c] = "start"
          /\ ~constructions[result[c]].checked

\* the S3 provider without distribution id has had its health check answered
C25_WitnessNoDistribution ==
    /\ env.STORAGE_PROVIDER = Some("s3-cloudfront")
    /\ DistributionKey \notin env.present
    /\ \E k \in ConstructionIds :
          /\ constructions[k].checked
          /\ constructions[k].healthAnswer = "true"

----------------------------------------------------------------------------
(* Properties of upload followed by delete on the Local adapter, checked    *)
(* under SpecStore                                                          *)

\* the last call was a successful uploadBuffer on the Local adapter
JustUploaded ==
    /\ storeAdapter = "local"
    /\ lastOp.name = "uploadBuffer"
    /\ ~lastOp.threw
    /\ kept # None

\* the step is deleteFile of the key just uploaded, the filesystem obeying
DeletesUploadedKey ==
    /\ lastOp'.name = "deleteFile"
    /\ lastOp'.keys = lastOp.keys
    /\ lastOp'.io = <<"ok">>

\* C26: on the Local adapter deleteFile(k) right after a successful
\* uploadBuffer(b, k) returns true and removes the file the upload stored,
\* and nothing else
C26_UploadThenDelete ==
    [][(JustUploaded /\ DeletesUploadedKey) =>
          /\ ~lastOp'.threw
          /\ lastOp'.ret = TRUE
          /\ kept[1].path \in DOMAIN fs
          /\ fs' = [q \in DOMAIN fs \ {kept[1].path} |-> fs[q]]]_vars

----------------------------------------------------------------------------
(* Properties of the migration script, checked under SpecMigration          *)

\* the positions of the script's log holding an event of that kind
LogEvents(kind) ==
    {i \in 1..Len(scriptLog) : scriptLog[i].event = kind}

\* C27: the script marks a course cdnEnabled only after a CDN-enabled adapter
\* uploaded its package; with a CDN provider named and the Local adapter
\* handed out by the Factory no course is marked; a dry run uploads nothing
\* and updates no record
C27_MarkedOnlyAfterCdnUpload ==
    /\ \A i \in LogEvents("update") :
          \E j \in LogEvents("upload") :
              /\ j < i
              /\ scriptLog[j].courseId = scriptLog[i].courseId
              /\ AdapterOf(scriptLog[j].adapter).cdnEnabled
    /\ \A id \in DOMAIN db :
          (db[id].cdnEnabled /\ ~CourseRecords[id].cdnEnabled) =>
              \E j \in LogEvents("upload") :
                  /\ scriptLog[j].courseId = id
                  /\ AdapterOf(scriptLog[j].adapter).cdnEnabled
    /\ (migration.adapter # 0 /\ ~AdapterOf(migration.adapter).cdnEnabled) =>
          /\ LogEvents("update") = {}
          /\ db = CourseRecords
    /\ migration.options.dryRun =>
          /\ scriptLog = <<>>
          /\ db = CourseRecords
          /\ fs = PackagesFs
          /\ bucket = <<>>

----------------------------------------------------------------------------
(* Properties of the purge results, checked under SpecResults               *)

\* caller c holds the result of a purgeCache() or purgeUrls() call
PurgeResultReturned(c) ==
    /\ pc[c] = "done"
    /\ op[c] \in {"purgeCache", "purgeUrls"}

\* in the call of c the adapter's purgeCdnCache was called with keys on a
\* CDN-enabled adapter and returned true
PurgedByAdapter(c, keys) ==
    /\ result[c] # 0
    /\ AdapterOf(result[c]).cdnEnabled
    /\ \E i \in 1..Len(purgeCalls) :
          /\ purgeCalls[i].id = opts[c].id
          /\ purgeCalls[i].adapter = result[c]
          /\ purgeCalls[i].keys = keys
          /\ purgeCalls[i].outcome = "true"

\* C28: a result of purgeCache or purgeUrls lists keys only if it reports
\* success and the CDN-enabled adapter's purgeCdnCache was called with
\* exactly those keys and returned true; a failure lists no keys
C28_PurgedKeysActuallyPurged ==
    \A c \in Callers :
        PurgeResultReturned(c) =>
            /\ purgeResult[c].purgedKeys # <<>> =>
                   /\ purgeResult[c].success
                   /\ PurgedByAdapter(c, purgeResult[c].purgedKeys)
            /\ ~purgeResult[c].success => purgeResult[c].purgedKeys = <<>>

\* purgeUrls of a URL with a key came back with that key purged
C28_Witness ==
    \E c \in Callers :
        /\ PurgeResultReturned(c)
        /\ entry[c] = "purgeUrls"
        /\ purgeResult[c].success
        /\ purgeResult[c].purgedKeys # <<>>

\* a purge the provider refused came back as a failure without keys
C28_WitnessRefused ==
    \E c \in Callers :
        /\ PurgeResultReturned(c)
        /\ entry[c] = "purgeCache"
        /\ ~purgeResult[c].success
        /\ \E i \in 1..Len(purgeCalls) :
              purgeCalls[i].id = opts[c].id /\ purgeCalls[i].outcome = "false"

----------------------------------------------------------------------------
(* Properties of uploadCourseAssets, checked under SpecUpload               *)

\* the positions of the archive's non-directory entries
FileEntries(zip) ==
    {i \in 1..Len(zip) : zip[i].fileName[Len(zip[i].fileName)] # "/"}

\* the archive's files in the order of the archive: position i of the
\* archive holds the first entry of its name, and a later entry of the same
\* name, if any, replaces its bytes
FirstOfName(zip, i) ==
    /\ i \in FileEntries(zip)
    /\ \A j \in 1..(i - 1) : zip[j].fileName # zip[i].fileName

LastOfName(zip, i) ==
    CHOOSE j \in FileEntries(zip) :
        /\ zip[j].fileName = zip[i].fileName
        /\ \A l \in FileEntries(zip) : zip[l].fileName = zip[i].fileName => l <= j

\* the n-th file of the archive, as a position of the archive
NthFile(zip, n) ==
    CHOOSE i \in 1..Len(zip) :
        /\ FirstOfName(zip, i)
        /\ Cardinality({j \in 1..i : FirstOfName(zip, j)}) = n

NumFiles(zip) ==
    Cardinality({i \in 1..Len(zip) : FirstOfName(zip, i)})

\* what the adapter of the upload holds under key
StoredUnder(c, key) ==
    IF AdapterOf(assetUsed[c]).type = "local"
    THEN ReadFile(fs, key)
    ELSE IF key \in DOMAIN bucket THEN Some(bucket[key]) ELSE None

RECURSIVE SumOfLengths(_)
SumOfLengths(attempts) ==
    IF attempts = <<>> THEN 0
    ELSE Len(Head(attempts).data) + SumOfLengths(Tail(attempts))

\* the n-th uploadBuffer call carried the n-th file of the archive under
\* courses/{courseId}/assets/{entryName}
AttemptIsNthFile(n) ==
    LET i == NthFile(upload.zip, n) IN
    /\ upload.attempts[n].key =
           <<"courses", "/">> \o upload.courseId \o <<"/", "assets", "/">>
               \o upload.zip[i].fileName
    /\ upload.attempts[n].data = upload.zip[LastOfName(upload.zip, i)].data

\* C29: uploadCourseAssets uploads the archive's files in order, one call
\* each, under courses/{courseId}/assets/{entryName}, directory entries left
\* out.  When a call raises the operation ends with the error: the files
\* uploaded before are still stored and no call follows.  When none raises
\* every file is stored, assetCount is the number of files uploaded and
\* fileSize the sum of their lengths.
C29_UploadsInOrderNoRollback ==
    \A c \in Callers :
        (op[c] = "uploadCourseAssets" /\ upload.pc \in {"uploading", "raised", "returned"}) =>
            LET n == Len(upload.attempts) IN
            /\ n <= NumFiles(upload.zip)
            /\ \A m \in 1..n : AttemptIsNthFile(m)
            /\ \A m \in 1..(n - 1) : ~upload.attempts[m].threw
            /\ \A m \in 1..n :
                  ~upload.attempts[m].threw =>
                      StoredUnder(c, upload.attempts[m].key) = Some(upload.attempts[m].data)
            /\ Len(adapterCalls) = n
            /\ upload.pc = "raised" =>
                  /\ upload.ret = None
                  /\ n > 0 => upload.attempts[n].threw
            /\ upload.pc = "uploading" => (n = 0 \/ ~upload.attempts[n].threw)
            /\ upload.pc = "returned" =>
                  /\ n = NumFiles(upload.zip)
                  /\ ~\E m \in 1..n : upload.attempts[m].threw
                  /\ upload.ret # None
                  /\ upload.ret[1].assetCount = n
                  /\ upload.ret[1].fileSize = SumOfLengths(upload.attempts)

\* the second of three files raised: the first is stored, the third untried
C29_Witness ==
    \E c \in Callers :
        /\ op[c] = "uploadCourseAssets"
        /\ upload.pc = "raised"
        /\ NumFiles(upload.zip) = 3
        /\ Len(upload.attempts) = 2
        /\ StoredUnder(c, upload.attempts[1].key) = Some(upload.attempts[1].data)

\* an archive with a directory entry and two files of different lengths was
\* uploaded whole
C29_WitnessReturned ==
    \E c \in Callers :
        /\ op[c] = "uploadCourseAssets"
        /\ upload.pc = "returned"
        /\ Len(upload.zip) = 3
        /\ upload.ret[1].assetCount = 2
        /\ upload.ret[1].fileSize = 3

----------------------------------------------------------------------------
(* Properties of the Factory's progress, checked under SpecLive             *)

\* the getAdapter() call of caller c is pending
Pending(c) ==
    pc[c] \in {"awaitInit", "awaitJoin"}

\* the step in which the pending getAdapter() call of caller c resolves
Resolves(c) ==
    /\ Pending(c)
    /\ pc'[c] = "resolved"

\* C30: with health checks that answer and continuations that run, every
\* pending getAdapter() call, of a starter or of a joiner, resolves to an
\* adapter whatever getAdapter() and reset() calls come between; when the
\* starter's call resolves the in-flight marker is cleared and the adapter
\* is the cached instance, and a joiner's call resolves only after that
C30_EveryCallResolves ==
    /\ \A c \in Callers : Pending(c) ~> (Resolved(c) /\ ~Pending(c))
    /\ [][\A c \in Callers :
             Resolves(c) =>
                 /\ result'[c] # 0
                 /\ pc[c] = "awaitInit" =>
                        /\ initializationPromise' = 0
                        /\ instance' = result'[c]
                 /\ pc[c] = "awaitJoin" =>
                        /\ constructions[result'[c]].resumed
                        /\ constructions[result'[c]].phase = "settled"]_vars

\* a reset came while the construction was in flight, and the starter and
\* the joiner of that construction have both resolved to its adapter
C30_Witness ==
    /\ racedReset
    /\ initializationPromise = 0
    /\ instance # 0
    /\ \E c, d \in Callers :
          /\ branch[c] = "start" /\ Resolved(c) /\ ~Pending(c)
          /\ branch[d] = "join" /\ Resolved(d) /\ ~Pending(d)
          /\ result[c] = result[d]

====
